---- MODULE Spec2Model ----
(***************************************************************************)
(* Verification model of the Ferry moderation bot.                         *)
(*                                                                         *)
(*   SpecStore  - the persistent configuration store of src/utils.py       *)
(*                (load_data, save_data) and the callers that mutate and   *)
(*                save the in-memory document.                             *)
(*   SpecRouter - the message router of src/start_bot.py                   *)
(*                (ModBot.on_message) with the custom command executor     *)
(*                (handle_custom_command).                                 *)
(*   SpecCustom - the same router fed with custom command invocations and  *)
(*                every outcome of the platform calls the executor makes.  *)
(***************************************************************************)
EXTENDS Integers, Sequences, FiniteSets, TLC

VARIABLES
    \* ---- store (src/utils.py) ----
    now,                \* time.time(), whole seconds
    data_json,          \* content of data.json
    data_json_mtime,    \* os.path.getmtime('data.json')
    data_backup_json,   \* content of data_backup.json
    corrupted_backups,  \* data_backup_corrupted_<ts>.json files: set of <<ts, content>>
    last_save_time,     \* utils._last_save_time
    save_queue,         \* utils._save_queue
    data,               \* bot.data, the in-memory document
    calls,              \* number of store calls made so far
    written,            \* when open + json.dump last completed on data.json (-1: never)
    ret,                \* observation of the last store call
    \* ---- router (src/start_bot.py) ----
    no_prefix_users,    \* bot.no_prefix_users
    custom_commands,    \* bot.custom_commands: str(guild id) -> name -> cmd_data
    aliases,            \* bot.data['aliases']: str(guild id) -> token -> command
    guild_prefixes,     \* module-level guild_prefixes
    afk_users,          \* bot.afk_users (the keys)
    message_timestamps, \* bot.message_timestamps
    mention_cooldowns,  \* bot.mention_cooldowns: user -> time
    command_cooldowns,  \* bot.command_cooldowns: user -> times
    commands_used,      \* bot.commands_used
    member_roles,       \* platform: member -> roles held
    msgs,               \* number of messages delivered so far
    out,                \* observation of the last message processed
    passed,             \* times of the messages that went past the throughput guard
    greeted,            \* the greetings that reached a channel: <<user, time>>
    \* ---- lifecycle (src/start_bot.py) ----
    joined,             \* autorole configuration and the last on_member_join
    retry,              \* run_bot_with_retry: its loop and what it did
    inflight,           \* the on_message tasks of the event loop and the state they share
    mass,               \* one run of the massrole command (src/commands/roles.py)
    snipe               \* bot.deleted_messages and the delete events handled

storeVars == <<now, data_json, data_json_mtime, data_backup_json, corrupted_backups,
               last_save_time, save_queue, data, calls, written, ret>>

configVars == <<no_prefix_users, custom_commands, aliases, guild_prefixes>>

routerVars == <<configVars, afk_users, message_timestamps, mention_cooldowns,
                command_cooldowns, commands_used, member_roles, msgs, out,
                passed, greeted>>

lifecycleVars == <<joined, retry, inflight, mass, snipe>>

vars == <<storeVars, routerVars, lifecycleVars>>

-----------------------------------------------------------------------------
(* Bounds of the model *)
StartTime == 400        \* time.time() when the process starts
TickStep  == 10         \* granularity of the clock
MaxTime   == 440        \* the clock stops here
MaxCalls  == 3          \* store calls per behaviour
MaxMsgs   == 2          \* messages delivered per behaviour of SpecRouter
MaxToggles == 2         \* custom command invocations per behaviour of SpecCustom
MaxFlood  == 32         \* messages delivered per behaviour of SpecFlood
MaxGreets == 4          \* messages delivered per behaviour of SpecGreet
MaxCommands == 12       \* messages delivered per behaviour of SpecCommands
MaxInflight == 3        \* messages delivered per behaviour of SpecTasks
MaxJoins  == 1          \* members that join per behaviour of SpecJoin
MaxDeletes == 4         \* delete events per behaviour of SpecSnipe

(* Program constants *)
SaveWindow == 30        \* save_data: "current_time - _last_save_time < 30"
BackupAge  == 300       \* save_data: "file_age > 300"
MsgWindow  == 30        \* on_message: "current_time - t < 30"
MsgCeiling == 30        \* on_message: "len(self.message_timestamps) > 30"
MentionCooldown == 30   \* on_message: "... < 30:  # 30 second cooldown"
CmdWindow  == 60        \* on_command: "current_time - t < 60"
CmdCeiling == 10        \* on_command: "len(...) > 10"
MaxRetriesHosted == 5   \* __init__: "self.max_retries = 5 if self.is_hosted else 3"
MaxRetriesLocal  == 3
BaseDelayHosted  == 2   \* __init__: "self.base_delay = 2.0 if self.is_hosted else 1.0"
BaseDelayLocal   == 1
RetryAfterHint   == 60  \* a retry_after the platform sends with a 429
SnipeCap   == 10        \* on_message_delete: "len(self.deleted_messages[guild_id]) > 10"

-----------------------------------------------------------------------------
(* Documents.  A document is a function from the section names it holds to  *)
(* the content of each section; 0 stands for the default content of the    *)
(* section ({} or [owner id]), 1 for content changed by a command.         *)

RequiredKeys ==
    {"no_prefix_users", "custom_commands", "guild_prefixes", "stolen_emojis",
     "stolen_stickers", "embeds", "welcome", "autoroles", "autoroles_bot",
     "aliases", "gpd_enabled"}

\* default_data of the "file does not exist" branch
DefaultData == [k \in RequiredKeys |-> 0]

\* required_keys of the "file parsed" branch
required_keys == [k \in RequiredKeys |-> 0]

\* default_data of the two except branches
RecoveryKeys ==
    {"no_prefix_users", "custom_commands", "guild_prefixes", "stolen_emojis",
     "stolen_stickers"}

RecoveryData == [k \in RecoveryKeys |-> 0]

\* File contents
Absent    == [kind |-> "absent"]
Garbage   == [kind |-> "corrupt", id |-> "garbage"]    \* not JSON
Truncated == [kind |-> "corrupt", id |-> "truncated"]  \* left by an interrupted write
NonDict   == [kind |-> "nondict"]                      \* JSON, but not an object
DocFile(d) == [kind |-> "doc", doc |-> d]

\* "for key, default_value in required_keys.items(): if key not in data: ..."
FillRequired(d) ==
    [k \in (DOMAIN d) \cup (DOMAIN required_keys) |->
        IF k \in DOMAIN d THEN d[k] ELSE required_keys[k]]

-----------------------------------------------------------------------------
(* Exceptions.  An I/O step either completes ("none") or raises.            *)
ExcTypes == {"OSError", "JSONDecodeError", "TypeError"}

\* Catches with "except Exception" narrowed to "except (ValueError, TypeError)"
Catches_narrow(clause, exc) ==
    CASE clause = "JSONDecodeError" -> exc = "JSONDecodeError"
      [] clause = "Exception"       -> exc \in {"JSONDecodeError", "TypeError"}
      [] clause = "bare"            -> exc \in ExcTypes
      [] OTHER                      -> FALSE

\* Which exception types an except clause catches
Catches(clause, exc) ==
    CASE clause = "JSONDecodeError" -> exc = "JSONDecodeError"
      [] clause = "Exception"       -> exc \in ExcTypes
      [] clause = "bare"            -> exc \in ExcTypes
      [] OTHER                      -> FALSE

\* Outcomes of the I/O steps of one call, chosen by the environment
IOOutcome(rd, qu, bk, wr, rs) ==
    [read    |-> rd,    \* open('data.json','r'): "ok" / "err"
     quarant |-> qu,    \* shutil.copy to data_backup_corrupted_<ts>.json
     backup  |-> bk,    \* getmtime / shutil.copy to data_backup.json
     write   |-> wr,    \* open('data.json','w') / json.dump: "ok", fails at "open",
                        \* or fails after a "partial" write
     restore |-> rs]    \* shutil.copy data_backup.json -> data.json

IOOutcomes ==
    {IOOutcome("ok",  "ok",  "ok",  "ok",      "ok"),
     IOOutcome("err", "ok",  "ok",  "ok",      "ok"),
     IOOutcome("ok",  "err", "ok",  "ok",      "ok"),
     IOOutcome("ok",  "ok",  "err", "ok",      "ok"),
     IOOutcome("ok",  "ok",  "ok",  "open",    "ok"),
     IOOutcome("ok",  "ok",  "ok",  "partial", "ok"),
     IOOutcome("ok",  "ok",  "ok",  "open",    "err"),
     IOOutcome("ok",  "ok",  "ok",  "partial", "err"),
     IOOutcome("ok",  "err", "err", "partial", "err"),
     IOOutcome("err", "ok",  "err", "open",    "err")}

(* The store state the functions work on *)
Store ==
    [data_json |-> data_json, mtime |-> data_json_mtime,
     data_backup_json |-> data_backup_json, corrupted_backups |-> corrupted_backups,
     last_save_time |-> last_save_time, save_queue |-> save_queue]

-----------------------------------------------------------------------------
(* save_data(data, force_save)                                             *)
(* Returns the new store and what the call did:                            *)
(*   attempted - the call went past the rate limit and tried to write      *)
(*   wrote     - open + json.dump completed                                *)
(*   restored  - data_backup.json was copied over data.json                *)
(*   raised    - the exception that reached the caller ("none" if none)    *)
\* rate_limited with the comparison turned round
rate_limited_reversed(st, force_save, t) ==
    ~force_save /\ t - st.last_save_time > SaveWindow

\* "if not force_save and current_time - _last_save_time < 30"
rate_limited(st, force_save, t) ==
    ~force_save /\ t - st.last_save_time < SaveWindow

\* after_write where a write that failed half way counts as a save
after_write_stamped(st1, d, t, w) ==
    CASE w = "ok" ->
            [st1 EXCEPT !.data_json = DocFile(d), !.mtime = t,
                        !.last_save_time = t, !.save_queue = FALSE]
      [] w = "open" -> st1
      [] w = "partial" ->
            [st1 EXCEPT !.data_json = Truncated, !.mtime = t,
                        !.last_save_time = t, !.save_queue = FALSE]

\* "with open('data.json', 'w') as f: json.dump(...)" and, when both went
\* through, "_last_save_time = current_time; _save_queue = False"
after_write(st1, d, t, w) ==
    CASE w = "ok" ->
            [st1 EXCEPT !.data_json = DocFile(d), !.mtime = t,
                        !.last_save_time = t, !.save_queue = FALSE]
      [] w = "open" -> st1
      [] w = "partial" ->
            [st1 EXCEPT !.data_json = Truncated, !.mtime = t]

save_data(st, d, force_save, t, io) ==
    IF rate_limited(st, force_save, t)
    THEN [st |-> [st EXCEPT !.save_queue = TRUE],
          attempted |-> FALSE, wrote |-> FALSE, restored |-> FALSE, raised |-> "none"]
    ELSE
      LET \* backup of the existing file; its own try/except swallows a failure
          doBackup == /\ st.data_json # Absent
                      /\ io.backup = "ok"
                      /\ t - st.mtime > BackupAge
          st1 == IF doBackup
                 THEN [st EXCEPT !.data_backup_json = st.data_json]
                 ELSE st
          backupExc == IF st.data_json # Absent /\ io.backup = "err" THEN "OSError" ELSE "none"
          backupEscapes == backupExc # "none" /\ ~Catches("Exception", backupExc)
          \* open('w') + json.dump
          writeExc == IF io.write = "ok" THEN "none" ELSE "OSError"
          st2 == after_write(st1, d, t, io.write)
          bodyExc == IF backupEscapes THEN backupExc ELSE writeExc
          \* except Exception as e: restore the backup
          caught == bodyExc # "none" /\ Catches("Exception", bodyExc)
          canRestore == st2.data_backup_json # Absent
          st3 == IF caught /\ canRestore /\ io.restore = "ok"
                 THEN [st2 EXCEPT !.data_json = st2.data_backup_json, !.mtime = t]
                 ELSE st2
          restoreExc == IF caught /\ canRestore /\ io.restore = "err"
                        THEN "OSError" ELSE "none"
          escaped == IF bodyExc # "none" /\ ~caught THEN bodyExc
                     ELSE IF restoreExc # "none" /\ ~Catches("Exception", restoreExc)
                          THEN restoreExc
                          ELSE "none"
      IN [st |-> IF backupEscapes THEN st1 ELSE st3,
          attempted |-> TRUE,
          wrote |-> (bodyExc = "none"),
          restored |-> (caught /\ canRestore /\ io.restore = "ok"),
          raised |-> escaped]

-----------------------------------------------------------------------------
(* load_data()                                                             *)
(* Returns the new store, the document handed to the caller, the branch    *)
(* taken and the outcome of the save_data call the branch makes.           *)
load_data(st, t, io) ==
    LET \* what the try body raises before it reaches its save_data call
        tryExc ==
            CASE st.data_json = Absent           -> "none"
              [] io.read = "err"                 -> "OSError"
              [] st.data_json.kind = "corrupt"   -> "JSONDecodeError"
              [] st.data_json.kind = "nondict"   -> "TypeError"
              [] OTHER                           -> "none"
    IN
    IF st.data_json = Absent
    THEN \* create default data if file doesn't exist
         LET s == save_data(st, DefaultData, FALSE, t, io)
         IN [st |-> s.st, result |-> DefaultData, path |-> "absent",
             attempted |-> s.attempted, wrote |-> s.wrote, restored |-> s.restored,
             raised |-> s.raised]
    ELSE IF tryExc = "none"
    THEN \* parsed: ensure all required keys exist, then save
         LET d == FillRequired(st.data_json.doc)
             s == save_data(st, d, FALSE, t, io)
         IN [st |-> s.st, result |-> d, path |-> "valid",
             attempted |-> s.attempted, wrote |-> s.wrote, restored |-> s.restored,
             raised |-> s.raised]
    ELSE IF Catches("JSONDecodeError", tryExc)
    THEN \* except json.JSONDecodeError: copy the file aside, install defaults
         LET copyExc == IF io.quarant = "err" THEN "OSError" ELSE "none"
             copyEscapes == copyExc # "none" /\ ~Catches("bare", copyExc)
             st1 == IF io.quarant = "ok"
                    THEN [st EXCEPT !.corrupted_backups =
                            {b \in @ : b[1] # t} \cup {<<t, st.data_json>>}]
                    ELSE st
             s == save_data(st1, RecoveryData, FALSE, t, io)
         IN IF copyEscapes
            THEN [st |-> st1, result |-> RecoveryData, path |-> "corrupt",
                  attempted |-> FALSE, wrote |-> FALSE, restored |-> FALSE,
                  raised |-> copyExc]
            ELSE [st |-> s.st, result |-> RecoveryData, path |-> "corrupt",
                  attempted |-> s.attempted, wrote |-> s.wrote, restored |-> s.restored,
                  raised |-> s.raised]
    ELSE IF Catches("Exception", tryExc)
    THEN \* except Exception: install defaults
         LET s == save_data(st, RecoveryData, FALSE, t, io)
         IN [st |-> s.st, result |-> RecoveryData, path |-> "error",
             attempted |-> s.attempted, wrote |-> s.wrote, restored |-> s.restored,
             raised |-> s.raised]
    ELSE [st |-> st, result |-> RecoveryData, path |-> "error",
          attempted |-> FALSE, wrote |-> FALSE, restored |-> FALSE, raised |-> tryExc]

-----------------------------------------------------------------------------
(* Strings are sequences of one-character strings.                         *)

\* str.lower() on the characters used
LowerChar(ch) ==
    CASE ch = "G" -> "g" [] ch = "I" -> "i" [] ch = "F" -> "f" [] OTHER -> ch

lower(s) == [i \in 1..Len(s) |-> LowerChar(s[i])]

startswith(s, p) == Len(p) <= Len(s) /\ SubSeq(s, 1, Len(p)) = p

\* s[n:]
Drop(s, n) == SubSeq(s, n + 1, Len(s))

\* str.strip()
strip(s) ==
    LET idx == {i \in 1..Len(s) : s[i] # " "}
        lo == CHOOSE i \in idx : \A j \in idx : i <= j
        hi == CHOOSE i \in idx : \A j \in idx : i >= j
    IN IF idx = {} THEN <<>> ELSE SubSeq(s, lo, hi)

\* str.split(): the whitespace-separated words
RECURSIVE split(_)
split(s) ==
    IF s = <<>> THEN <<>>
    ELSE IF s[1] = " " THEN split(Tail(s))
    ELSE LET stops == {i \in 1..Len(s) : s[i] = " "}
             n == IF stops = {} THEN Len(s)
                  ELSE (CHOOSE i \in stops : \A j \in stops : i <= j) - 1
         IN <<SubSeq(s, 1, n)>> \o split(Drop(s, n))

\* ' '.join(parts)
RECURSIVE join(_)
join(parts) ==
    IF parts = <<>> THEN <<>>
    ELSE IF Len(parts) = 1 THEN parts[1]
    ELSE parts[1] \o <<" ">> \o join(Tail(parts))

-----------------------------------------------------------------------------
(* The guild, its members and its roles (the chat platform's state)        *)

Guild == "g1"                       \* message.guild.id
NoGuild == "dm"                     \* message.guild is None
IntKey(g) == <<"int", g>>           \* guild.id used as a dict key
StrKey(g) == <<"str", g>>           \* str(guild.id) used as a dict key

Humans == {"owner", "mod", "member"}
Bot == "bot"                        \* self.user
guild_owner == "owner"              \* message.guild.owner

\* r4 sits at the same position as r3
guild_roles == {"everyone", "r1", "r2", "r3", "r4"}

\* position of a role in the guild's hierarchy
Rank(r) ==
    CASE r = "r1" -> 1 [] r = "r2" -> 2 [] r = "r3" -> 3 [] r = "r4" -> 3 [] OTHER -> 0

\* Role.__ge__
role_ge(a, b) == Rank(a) >= Rank(b)

\* Member.top_role
top_role(held) ==
    CHOOSE r \in held \cup {"everyone"} :
        \A q \in held \cup {"everyone"} : Rank(q) <= Rank(r)

\* get_role that hands back a role for every id
get_role_any(role_id) == role_id

\* guild.get_role(role_id)
get_role(role_id) == IF role_id \in guild_roles THEN role_id ELSE "None"

Range(f) == {f[i] : i \in DOMAIN f}

-----------------------------------------------------------------------------
(* Command registry (discord.py commands.Bot with case_insensitive=True)   *)

DEFAULT_PREFIX == <<"!">>

W_gif == <<"g", "i", "f">>
W_req == <<"r", "e", "q">>
W_help == <<"h", "e", "l", "p">>

\* self.commands: the commands registered from the source
Registry ==
    {[name |-> W_gif,  aliases |-> {}],
     [name |-> W_req,  aliases |-> {}],
     [name |-> W_help, aliases |-> {}]}

\* "all_commands.append(command.name); all_commands.extend(command.aliases)"
all_commands == UNION {{c.name} \cup c.aliases : c \in Registry}

\* get_prefix(bot, message) / get_current_prefix(guild_id)
get_current_prefix(guild_id) ==
    IF IntKey(guild_id) \in DOMAIN guild_prefixes
    THEN guild_prefixes[IntKey(guild_id)]
    ELSE DEFAULT_PREFIX

get_prefix(m) ==
    IF m.guild # NoGuild THEN get_current_prefix(m.guild) ELSE DEFAULT_PREFIX

\* StringView.get_word(): the characters up to the next whitespace
get_word(s) ==
    LET stops == {i \in 1..Len(s) : s[i] = " "}
    IN IF stops = {} THEN s
       ELSE SubSeq(s, 1, (CHOOSE i \in stops : \A j \in stops : i <= j) - 1)

\* await self.get_context(message)
get_context(m, content) ==
    LET prefix == get_prefix(m)
        invoker == get_word(Drop(content, Len(prefix)))
    IN IF ~startswith(content, prefix)
       THEN [valid |-> FALSE, command |-> <<>>]
       ELSE IF lower(invoker) \in all_commands
       THEN [valid |-> TRUE, command |-> lower(invoker)]
       ELSE [valid |-> FALSE, command |-> <<>>]

-----------------------------------------------------------------------------
(* Outcomes of the platform calls of one message, chosen by the environment *)
PlatformOutcome(mu, s1, s2, nt) ==
    [mutate |-> mu,     \* add_roles / remove_roles: "ok", "Forbidden", "HTTPException"
     send1  |-> s1,     \* first reply sent by the handler
     send2  |-> s2,     \* second reply sent by the handler
     notice |-> nt]     \* the AFK / greeting notice

PlatformOutcomes ==
    {PlatformOutcome("ok",            "ok",            "ok",            "ok"),
     PlatformOutcome("Forbidden",     "ok",            "ok",            "ok"),
     PlatformOutcome("HTTPException", "ok",            "ok",            "ok"),
     PlatformOutcome("ok",            "HTTPException", "ok",            "ok"),
     PlatformOutcome("ok",            "Forbidden",     "HTTPException", "ok"),
     PlatformOutcome("ok",            "ok",            "ok",            "HTTPException")}

-----------------------------------------------------------------------------
(* handle_custom_command(message, cmd_name, cmd_data)                      *)
(* Returns the role calls issued, the replies sent (with their outcome),   *)
(* the members' roles afterwards and the exception that escaped.           *)

\* "await message.channel.send(embed=embed)" outside any try block
GuardReply(kind, roles, io) ==
    [calls |-> <<>>, sends |-> <<[kind |-> kind, result |-> io.send1]>>,
     roles |-> roles, raised |-> IF io.send1 = "ok" THEN "none" ELSE io.send1]

\* the role_id the stored command data resolves to
cmd_role_id(cmd_data) ==
    CASE cmd_data.kind = "dict" -> cmd_data.role_id     \* {'role_id': ..., 'role': ...}
      [] cmd_data.kind = "int"  -> cmd_data.role_id     \* legacy: bare integer
      [] OTHER                  -> "None"

\* above_bot with ">" for ">="
above_bot_strict(role, roles) == Rank(role) > Rank(top_role(roles[Bot]))

\* the hierarchy guard: "role >= message.guild.me.top_role"
above_bot(role, roles) == role_ge(role, top_role(roles[Bot]))

\* above_author without the owner exemption
above_author_owner_too(m, role, roles) ==
    role_ge(role, top_role(roles[m.author]))

\* the author guard:
\* "message.author != message.guild.owner and role >= message.author.top_role"
above_author(m, role, roles) ==
    m.author # guild_owner /\ role_ge(role, top_role(roles[m.author]))

\* holds_role with the membership test lost: the executor always grants
holds_role_never(role, target_user, roles) == FALSE

\* "if role in target_user.roles"
holds_role(role, target_user, roles) == role \in roles[target_user]

\* toggle that sends a closing reply after the report
toggle_resend(m, role, roles, io) ==
    LET target_user == m.mentions[1]
        has == holds_role(role, target_user, roles)
        call == [op |-> IF has THEN "remove_roles" ELSE "add_roles",
                 user |-> target_user, role |-> role]
        roles1 == IF io.mutate # "ok" THEN roles
                  ELSE [roles EXCEPT ![target_user] =
                            IF has THEN @ \ {role} ELSE @ \cup {role}]
        okKind == IF has THEN "RoleRemoved" ELSE "RoleAssigned"
    IN [calls |-> <<call>>,
        sends |-> <<[kind |-> okKind, result |-> io.send1],
                    [kind |-> "Error", result |-> io.send2]>>,
        roles |-> roles1,
        raised |-> "none"]

\* the try block: toggle the role, then report
toggle(m, role, roles, io) ==
    LET target_user == m.mentions[1]
        has == holds_role(role, target_user, roles)
        call == [op |-> IF has THEN "remove_roles" ELSE "add_roles",
                 user |-> target_user, role |-> role]
        roles1 == IF io.mutate # "ok" THEN roles
                  ELSE [roles EXCEPT ![target_user] =
                            IF has THEN @ \ {role} ELSE @ \cup {role}]
        okKind == IF has THEN "RoleRemoved" ELSE "RoleAssigned"
        \* what the try block raises
        tryExc == IF io.mutate # "ok" THEN io.mutate
                  ELSE IF io.send1 # "ok" THEN io.send1 ELSE "none"
        firstSend == IF io.mutate = "ok"
                     THEN <<[kind |-> okKind, result |-> io.send1]>> ELSE <<>>
        \* the send made by the except clause is the next send of the handler
        handlerResult == IF io.mutate = "ok" THEN io.send2 ELSE io.send1
        handlerKind == IF tryExc = "Forbidden" THEN "ForbiddenError" ELSE "Error"
    IN IF tryExc = "none"
       THEN [calls |-> <<call>>, sends |-> firstSend, roles |-> roles1, raised |-> "none"]
       ELSE [calls |-> <<call>>,
             sends |-> Append(firstSend, [kind |-> handlerKind, result |-> handlerResult]),
             roles |-> roles1,
             raised |-> IF handlerResult = "ok" THEN "none" ELSE handlerResult]

\* handle_custom_command that resolves the role before it looks for a mention
handle_custom_command_role_first(m, cmd_name, cmd_data, roles, io) ==
    LET role_id == cmd_role_id(cmd_data)
        role == IF role_id # "None" THEN get_role(role_id) ELSE "None"
    IN IF role = "None" THEN GuardReply("RoleNotFound", roles, io)
       ELSE IF m.mentions = <<>> THEN GuardReply("MissingUser", roles, io)
       ELSE IF above_bot(role, roles) THEN GuardReply("HierarchyError", roles, io)
       ELSE IF above_author(m, role, roles) THEN GuardReply("PermissionError", roles, io)
       ELSE toggle(m, role, roles, io)

handle_custom_command(m, cmd_name, cmd_data, roles, io) ==
    LET role_id == cmd_role_id(cmd_data)
        role == IF role_id # "None" THEN get_role(role_id) ELSE "None"
    IN IF m.mentions = <<>> THEN GuardReply("MissingUser", roles, io)
       ELSE IF role = "None" THEN GuardReply("RoleNotFound", roles, io)
       ELSE IF above_bot(role, roles) THEN GuardReply("HierarchyError", roles, io)
       ELSE IF above_author(m, role, roles) THEN GuardReply("PermissionError", roles, io)
       ELSE toggle(m, role, roles, io)

-----------------------------------------------------------------------------
(* ModBot.on_command(ctx): the listener of the 'command' event             *)
on_command(author, t) ==
    LET known == author \in DOMAIN command_cooldowns
        recent == IF known
                  THEN SelectSeq(command_cooldowns[author], LAMBDA x : t - x < CmdWindow)
                  ELSE <<>>
        limited == known /\ Len(recent) > CmdCeiling
        entry == IF ~known THEN <<t>>
                 ELSE IF limited THEN recent ELSE Append(recent, t)
    IN [used |-> 1,
        limited |-> limited,
        cooldowns |-> [u \in (DOMAIN command_cooldowns) \cup {author} |->
                          IF u = author THEN entry ELSE command_cooldowns[u]]]

(* "if ctx.valid: self.commands_used += 1; await self.invoke(ctx)"          *)
(* Returns the part of the result a dispatched built-in contributes.       *)
invoke(m, ctx, content, via, t) ==
    LET oc == on_command(m.author, t)
    IN [handler |-> "builtin", via |-> via, cmd |-> ctx.command, content |-> content,
        starts |-> <<"builtin">>,
        calls |-> <<>>, sends |-> <<>>, raised |-> "none",
        roles |-> member_roles,
        used |-> commands_used + 1 + oc.used,
        cooldowns |-> oc.cooldowns]

\* nothing was dispatched
NoDispatch(content, raised) ==
    [handler |-> "none", via |-> "none", cmd |-> <<>>, content |-> content,
     starts |-> <<>>,
     calls |-> <<>>, sends |-> <<>>, raised |-> raised,
     roles |-> member_roles, used |-> commands_used, cooldowns |-> command_cooldowns]

\* the custom command executor was run
CustomResult(cmd_name, content, via, h) ==
    [handler |-> "custom", via |-> via, cmd |-> cmd_name, content |-> content,
     starts |-> <<"custom">>,
     calls |-> h.calls, sends |-> h.sends, raised |-> h.raised,
     roles |-> h.roles, used |-> commands_used, cooldowns |-> command_cooldowns]

\* "await handle_custom_command(message, cmd_name,
\*      self.custom_commands[guild_id][cmd_name]); return"
Custom(m, cmd_name, content, via, io) ==
    CustomResult(cmd_name, content, via,
        handle_custom_command(m, cmd_name,
            custom_commands[StrKey(m.guild)][cmd_name], member_roles, io))

\* "Finally process as normal command"
\* final_dispatch without the "if ctx.valid" test
final_dispatch_unchecked(m, content, t) ==
    invoke(m, get_context(m, content), content, "final", t)

\* "ctx = await self.get_context(message); if ctx.valid: ... self.invoke(ctx)"
final_dispatch(m, content, t) ==
    LET ctx == get_context(m, content)
    IN IF ctx.valid THEN invoke(m, ctx, content, "final", t)
       ELSE NoDispatch(content, "none")

\* alias replacement: message.content after the "Alias map" block
\* alias_replace that looks the replacement up again (chained aliases)
alias_replace_chained(m, prefix, content, parts, alias_map) ==
    LET cmd_name == lower(parts[1])
        found == cmd_name \in DOMAIN alias_map /\ alias_map[cmd_name] # <<>>
        onPrefix == startswith(content, prefix)
        next == IF onPrefix THEN prefix \o alias_map[cmd_name] ELSE alias_map[cmd_name]
        real_cmd == IF next \in DOMAIN alias_map THEN alias_map[next]
                    ELSE alias_map[cmd_name]
    IN IF parts = <<>> THEN m.content
       ELSE IF onPrefix
       THEN IF found
            THEN strip(prefix \o real_cmd \o <<" ">> \o join(Tail(parts)))
            ELSE m.content
       ELSE IF m.author \in no_prefix_users
       THEN IF found
            THEN strip(real_cmd \o <<" ">> \o join(Tail(parts)))
            ELSE m.content
       ELSE m.content

alias_replace(m, prefix, content, parts, alias_map) ==
    LET cmd_name == lower(parts[1])
        found == cmd_name \in DOMAIN alias_map /\ alias_map[cmd_name] # <<>>
        real_cmd == alias_map[cmd_name]
    IN IF parts = <<>> THEN m.content
       ELSE IF startswith(content, prefix)
       THEN IF found
            THEN strip(prefix \o real_cmd \o <<" ">> \o join(Tail(parts)))
            ELSE m.content
       ELSE IF m.author \in no_prefix_users
       THEN IF found
            THEN strip(real_cmd \o <<" ">> \o join(Tail(parts)))
            ELSE m.content
       ELSE m.content

\* "prefix = ...; content = message.content.strip(); alias_map = ...;
\*  parts = content.split()" and the replacement
alias_rewrite(m) ==
    alias_replace(m, get_current_prefix(m.guild), strip(m.content),
                  split(strip(m.content)),
                  IF StrKey(m.guild) \in DOMAIN aliases
                  THEN aliases[StrKey(m.guild)] ELSE <<>>)

\* custom_cmd_name without ".lower()"
custom_cmd_name_as_typed(content, prefix) ==
    IF startswith(content, prefix)
    THEN split(Drop(content, Len(prefix)))[1]
    ELSE <<>>

\* "message.content[len(prefix):].split()[0].lower()
\*      if message.content.startswith(prefix) else ''"
custom_cmd_name(content, prefix) ==
    IF startswith(content, prefix)
    THEN lower(split(Drop(content, Len(prefix)))[1])
    ELSE <<>>

\* no_prefix_allowed with the allow-set test lost
no_prefix_allowed_any(m) == TRUE

\* "if message.author.id in self.no_prefix_users" of the no-prefix block
no_prefix_allowed(m) == m.author \in no_prefix_users

\* returned where the handler goes on to the code after the call
returned_falls_through(r, rest) == [r EXCEPT !.starts = @ \o rest.starts]

\* "await handle_custom_command(...); return" and "return await
\* self.invoke(ctx)": r is what the call did, rest what the code after it
\* would do
returned(r, rest) == r

\* "After alias replacement, continue normal processing": the custom command
\* check, the no-prefix block and the final dispatch, for the rewritten content
route_guild(m, prefix, content, t, io) ==
    LET guild_id == StrKey(m.guild)
        \* "Check custom commands"
        hasPrefix == startswith(content, prefix)
        words == split(Drop(content, Len(prefix)))
        indexError == hasPrefix /\ words = <<>>
        cmd_name == custom_cmd_name(content, prefix)
        guild_cmds == IF guild_id \in DOMAIN custom_commands
                      THEN DOMAIN custom_commands[guild_id] ELSE {}
        \* "No-prefix built-in commands"
        first_word == IF split(content) # <<>> THEN lower(split(content)[1]) ELSE <<>>
        prefixed == prefix \o content
        ctx == get_context(m, prefixed)
    IN IF indexError THEN NoDispatch(content, "IndexError")
       ELSE IF cmd_name \in guild_cmds
       THEN returned(Custom(m, cmd_name, content, "prefix", io),
                     final_dispatch(m, content, t))
       ELSE IF no_prefix_allowed(m)
       THEN IF first_word \in guild_cmds
            THEN returned(Custom(m, first_word, content, "noprefix", io),
                          final_dispatch(m, content, t))
            ELSE IF first_word \in all_commands
            THEN IF ctx.valid
                 THEN returned(invoke(m, ctx, prefixed, "noprefix", t),
                               final_dispatch(m, prefixed, t))
                 ELSE final_dispatch(m, prefixed, t)
            ELSE final_dispatch(m, content, t)
       ELSE final_dispatch(m, content, t)

\* "Process in guild only" down to the end of on_message
route(m, t, io) ==
    IF m.guild = NoGuild THEN final_dispatch(m, m.content, t)
    ELSE route_guild(m, get_current_prefix(m.guild), alias_rewrite(m), t, io)

\* in_cooldown that never holds
in_cooldown_never(user_id, t) == FALSE

\* "if user_id in self.mention_cooldowns:
\*      if current_time - self.mention_cooldowns[user_id] < 30"
in_cooldown(user_id, t) ==
    /\ user_id \in DOMAIN mention_cooldowns
    /\ t - mention_cooldowns[user_id] < MentionCooldown

\* first_mention_afk that looks at every mention
first_mention_afk_any(mentions, afk) == \E i \in DOMAIN mentions : mentions[i] \in afk

\* "if message.mentions and len(message.mentions) > 0:
\*      mention = message.mentions[0]
\*      if mention.id in self.afk_users"
first_mention_afk(mentions, afk) == mentions # <<>> /\ mentions[1] \in afk

\* swallowed that lets every exception of the send through
swallowed_none(exc) == FALSE

\* "except discord.HTTPException: pass" around the AFK notice's send
swallowed(exc) == exc \in {"HTTPException", "Forbidden"}

\* what a message that went through the routing block leaves
RoutedResult(m, r, notices, ts1, afk1) ==
    [out |-> [msg |-> m, stage |-> "routed", handler |-> r.handler,
              starts |-> r.starts,
              via |-> r.via, cmd |-> r.cmd, content |-> r.content,
              calls |-> r.calls, sends |-> r.sends, notices |-> notices,
              raised |-> r.raised, roles_before |-> member_roles,
              used_before |-> commands_used,
              afk_for |-> IF first_mention_afk(m.mentions, afk1)
                          THEN m.mentions[1] ELSE "none"],
     ts |-> ts1, afk |-> afk1, mcd |-> mention_cooldowns,
     roles |-> r.roles, used |-> r.used, cooldowns |-> r.cooldowns]

\* "Stricter rate limiting check": whether the message is dropped, and
\* self.message_timestamps afterwards
throughput_guard(mt, t) ==
    LET recent == SelectSeq(mt.ts, LAMBDA x : t - x < MsgWindow)
        throttled == mt.has /\ Len(recent) > MsgCeiling
    IN [throttled |-> throttled,
        ts |-> IF ~mt.has THEN [has |-> TRUE, ts |-> <<t>>]
               ELSE IF throttled THEN [has |-> TRUE, ts |-> recent]
               ELSE [has |-> TRUE, ts |-> Append(recent, t)]]

\* clear_afk that leaves the entry in place
clear_afk_kept(afk, user_id) == afk

\* "if message.author.id in self.afk_users: ... del self.afk_users[message.author.id]"
clear_afk(afk, user_id) == afk \ {user_id}

(* ModBot.on_message(message)                                              *)
(* Returns the observation of the message and the state it leaves.        *)
on_message(m, t, io) ==
    LET \* throughput guard
        throttled == throughput_guard(message_timestamps, t).throttled
        ts1 == throughput_guard(message_timestamps, t).ts
        \* AFK system
        back == m.author \in afk_users
        afk1 == clear_afk(afk_users, m.author)
        afkMention == first_mention_afk(m.mentions, afk1)
        afkRaises == afkMention /\ io.notice # "ok" /\ ~swallowed(io.notice)
        \* the notices that reach the channel; a failing send is ignored
        notices == IF io.notice # "ok" THEN <<>>
                   ELSE (IF back THEN <<"welcome_back">> ELSE <<>>)
                        \o (IF afkMention THEN <<"afk">> ELSE <<>>)
        greeting == IF io.notice = "ok" THEN <<"greeting">> ELSE <<>>
        \* mention of the bot
        greet == /\ Bot \in Range(m.mentions) /\ ~m.mention_everyone
                 /\ Len(split(m.content)) = 1
        cooling == in_cooldown(m.author, t)
        mcd1 == [u \in (DOMAIN mention_cooldowns) \cup {m.author} |->
                    IF u = m.author THEN t ELSE mention_cooldowns[u]]
        Quiet(stage, ts, afk, mcd, nts, raised) ==
            [out |-> [msg |-> m, stage |-> stage, handler |-> "none", via |-> "none",
                      starts |-> <<>>,
                      cmd |-> <<>>, content |-> m.content, calls |-> <<>>,
                      sends |-> <<>>, notices |-> nts, raised |-> raised,
                      roles_before |-> member_roles, used_before |-> commands_used,
                      afk_for |-> IF afkMention /\ stage \notin {"bot", "throttled"}
                                  THEN m.mentions[1] ELSE "none"],
             ts |-> ts, afk |-> afk, mcd |-> mcd, roles |-> member_roles,
             used |-> commands_used, cooldowns |-> command_cooldowns]
    IN IF m.author = Bot
       THEN Quiet("bot", message_timestamps, afk_users, mention_cooldowns, <<>>, "none")
       ELSE IF throttled
       THEN Quiet("throttled", ts1, afk_users, mention_cooldowns, <<>>, "none")
       ELSE IF afkRaises
       THEN Quiet("afk_notice", ts1, afk1, mention_cooldowns,
                  IF back THEN <<"welcome_back">> ELSE <<>>, io.notice)
       ELSE IF greet /\ cooling
       THEN Quiet("cooldown", ts1, afk1, mention_cooldowns, notices, "none")
       ELSE IF greet /\ m.guild = NoGuild
       THEN \* get_current_prefix(message.guild.id) with message.guild None
            Quiet("greeting", ts1, afk1, mcd1, notices, "AttributeError")
       ELSE IF greet
       THEN Quiet("greeting", ts1, afk1, mcd1, notices \o greeting, "none")
       ELSE RoutedResult(m, route(m, t, io), notices, ts1, afk1)


-----------------------------------------------------------------------------
(* ModBot.on_member_join(member): the autorole part                        *)

\* self.data[autorole_key][guild_id] as it may be stored: a role id string, a
\* list of them, an integer, or something else; NoAutorole when the guild has
\* no entry.  The id "bad" is not the text of an integer.
NoAutorole == [kind |-> "none", ids |-> <<>>]
RoleData(kind, ids) == [kind |-> kind, ids |-> ids]

\* int(role_id) raises ValueError
unparseable(role_id) == role_id = "bad"

\* "role_ids = [...]": the ids the loop goes through; returned is FALSE when the
\* handler returns from the parsing block
parse_role_ids(role_data) ==
    CASE role_data.kind = "str" ->
            IF unparseable(role_data.ids[1])
            THEN [returned |-> TRUE, role_ids |-> <<>>]
            ELSE [returned |-> FALSE, role_ids |-> <<role_data.ids[1]>>]
      [] role_data.kind = "list" ->
            [returned |-> FALSE,
             role_ids |-> SelectSeq(role_data.ids, LAMBDA x : ~unparseable(x))]
      [] role_data.kind = "int" ->
            [returned |-> FALSE, role_ids |-> <<role_data.ids[1]>>]
      [] OTHER -> [returned |-> TRUE, role_ids |-> <<>>]

\* grantable without the hierarchy test
grantable_any_rank(role_id, manage_roles, bot_roles) ==
    /\ get_role(role_id) # "None"
    /\ manage_roles

\* "if role: if member.guild.me.guild_permissions.manage_roles:
\*    if role.position <= member.guild.me.top_role.position
\*       and role != member.guild.me.top_role"
grantable(role_id, manage_roles, bot_roles) ==
    /\ get_role(role_id) # "None"
    /\ manage_roles
    /\ Rank(role_id) <= Rank(top_role(bot_roles))
    /\ role_id # top_role(bot_roles)

\* roles_assigned that counts the adds made instead of the adds that succeeded
roles_assigned_calls(adds, outs) == Len(adds)

\* "roles_assigned += 1" after an add_roles that did not raise
roles_assigned(adds, outs) == Len(SelectSeq(adds, LAMBDA x : outs[x] = "ok"))

\* self.data['welcome_systems'][guild_id] as stored: NoWelcome when the guild
\* has no entry; embed and channel are "" when unset
NoWelcome == [present |-> FALSE, enabled |-> FALSE, embed |-> "", channel |-> ""]
WelcomeData(enabled, embed, channel) ==
    [present |-> TRUE, enabled |-> enabled, embed |-> embed, channel |-> channel]

\* self.data['embed_templates'][guild_id] and the guild's channels; the channel
\* id "bad" is not the text of an integer
embed_templates == {"hi"}
guild_channels == {"c1"}

\* welcome_evaluated that does not look at the kind of account
welcome_evaluated_bots(member_bot, w) == w.present

\* "if not member.bot and guild_id in self.data.get('welcome_systems', {})"
welcome_evaluated(member_bot, w) == ~member_bot /\ w.present

\* "except Exception as e" around get_channel and send: ValueError, Forbidden
\* and HTTPException are all Exceptions
welcome_catches(exc) == exc \in {"ValueError", "Forbidden", "HTTPException"}

\* the welcome part of on_member_join: whether channel.send completed and the
\* exception that left the handler
welcome(member_bot, w, wsend) ==
    LET ready == /\ welcome_evaluated(member_bot, w)
                 /\ w.enabled
                 /\ w.embed # "" /\ w.channel # ""
                 /\ w.embed \in embed_templates
        \* inside "try: ... except Exception"
        tryExc == IF w.channel = "bad" THEN "ValueError"
                  ELSE IF w.channel \in guild_channels /\ wsend # "ok" THEN wsend
                  ELSE "none"
    IN [sent |-> ready /\ w.channel \in guild_channels /\ wsend = "ok",
        tried |-> ready /\ w.channel \in guild_channels,
        raised |-> IF ready /\ tryExc # "none" /\ ~welcome_catches(tryExc)
                   THEN tryExc ELSE "none"]

\* what the handler did with the ids it went through
JoinResult(role_ids, adds, outs) ==
    [handled |-> TRUE,
     total |-> Len(role_ids),
     calls |-> adds,
     granted |-> {x \in Range(adds) : outs[x] = "ok"},
     assigned |-> roles_assigned(adds, outs),
     report |-> IF roles_assigned(adds, outs) > 0
                THEN <<roles_assigned(adds, outs), Len(role_ids)>>
                ELSE <<>>]

\* outs: the outcome of member.add_roles for each role, chosen by the platform
autorole(member_bot, d, manage_roles, bot_roles, outs) ==
    LET autorole_key == IF member_bot THEN "autoroles_bot" ELSE "autoroles"
        role_data == d[autorole_key]
        parsed == parse_role_ids(role_data)
    IN IF role_data.kind = "none" \/ parsed.returned
       THEN JoinResult(<<>>, <<>>, outs)
       ELSE JoinResult(parsed.role_ids,
                SelectSeq(parsed.role_ids,
                          LAMBDA x : grantable(x, manage_roles, bot_roles)),
                outs)

\* the "return" of the id parsing leaves the handler before the welcome part
autorole_returns(member_bot, d) ==
    LET role_data == d[IF member_bot THEN "autoroles_bot" ELSE "autoroles"]
    IN role_data.kind # "none" /\ parse_role_ids(role_data).returned

\* wsend: the outcome of channel.send for the welcome message
on_member_join(member_bot, d, manage_roles, bot_roles, outs, wsend) ==
    [autorole |-> autorole(member_bot, d, manage_roles, bot_roles, outs),
     welcome |-> IF autorole_returns(member_bot, d)
                 THEN [sent |-> FALSE, tried |-> FALSE, raised |-> "none"]
                 ELSE welcome(member_bot, d.welcome_systems, wsend)]

-----------------------------------------------------------------------------
(* run_bot_with_retry()                                                    *)

max_retries(is_hosted) == IF is_hosted THEN MaxRetriesHosted ELSE MaxRetriesLocal
base_delay(is_hosted) == IF is_hosted THEN BaseDelayHosted ELSE BaseDelayLocal

\* 2 ** n
Pow2(n) == CASE n = 0 -> 1 [] n = 1 -> 2 [] n = 2 -> 4 [] n = 3 -> 8 [] OTHER -> 16

\* how bot.start(BOT_TOKEN) can end
StartOutcomes ==
    {"ok", "429", "HTTPException", "LoginFailure", "Exception", "CancelledError"}

\* the exception a failed start raises
StartError(outcome) == IF outcome = "429" THEN "HTTPException" ELSE outcome

\* last_attempt that never holds
last_attempt_never(attempt, is_hosted) == FALSE

\* "if attempt == bot.max_retries - 1"
last_attempt(attempt, is_hosted) == attempt = max_retries(is_hosted) - 1

\* reraised where an invalid token is handled like any other error
reraised_cancel_only(outcome) == outcome = "CancelledError"

\* "except discord.LoginFailure: ... raise"; a CancelledError is no Exception
\* and passes every except clause of the loop
reraised(outcome) == outcome \in {"LoginFailure", "CancelledError"}

\* the sleep that follows a failed start that is retried
wait_after(outcome, attempt, is_hosted, hint) ==
    LET backoff == base_delay(is_hosted) * Pow2(attempt)
    IN IF outcome = "429"
       THEN [why |-> "429", least |-> IF hint > backoff THEN hint ELSE backoff]
       ELSE [why |-> outcome, least |-> backoff]

\* one pass of "for attempt in range(bot.max_retries)"
retry_attempt(r, outcome, hint) ==
    LET pre == IF r.attempt > 0
               THEN <<[why |-> "backoff",
                       least |-> base_delay(r.is_hosted) * Pow2(r.attempt - 1)]>>
               ELSE <<>>
        r1 == [r EXCEPT !.sleeps = @ \o pre, !.starts = @ + 1, !.last = outcome]
        raises == \/ reraised(outcome)
                  \/ outcome # "ok" /\ last_attempt(r.attempt, r.is_hosted)
        next == r.attempt + 1
    IN IF outcome = "ok" THEN [r1 EXCEPT !.pc = "done"]
       ELSE IF raises THEN [r1 EXCEPT !.pc = "raised", !.error = StartError(outcome)]
       ELSE [r1 EXCEPT !.sleeps = Append(@, wait_after(outcome, r.attempt, r.is_hosted, hint)),
                       !.attempt = next,
                       !.pc = IF next < max_retries(r.is_hosted) THEN "loop"
                              ELSE "exhausted"]

-----------------------------------------------------------------------------
(* Store actions *)

NoData == [none |-> TRUE]      \* bot.data before ModBot.__init__ has run
NoCall == [op |-> "none", force |-> FALSE, path |-> "none", attempted |-> FALSE,
           wrote |-> FALSE, restored |-> FALSE, raised |-> "none"]

\* Documents data.json may hold when the process starts
InitialDocs ==
    {[DefaultData EXCEPT !["autoroles"] = 1],                        \* complete
     [k \in {"no_prefix_users", "custom_commands"} |-> 1],           \* old layout
     [k \in RequiredKeys \ {"aliases", "gpd_enabled"} |-> 0]}        \* two sections short

InitialFiles == {Absent, Garbage, NonDict} \cup {DocFile(d) : d \in InitialDocs}

InitStore ==
    /\ now = StartTime
    /\ data_json \in InitialFiles
    /\ data_json_mtime \in {0, StartTime}
    /\ data_backup_json = Absent
    /\ corrupted_backups = {}
    /\ last_save_time = 0
    /\ save_queue = FALSE
    /\ data = NoData
    /\ calls = 0
    /\ written = -1
    /\ ret = NoCall

SetStore(st) ==
    /\ data_json' = st.data_json
    /\ data_json_mtime' = st.mtime
    /\ data_backup_json' = st.data_backup_json
    /\ corrupted_backups' = st.corrupted_backups
    /\ last_save_time' = st.last_save_time
    /\ save_queue' = st.save_queue

\* what the caller and an observer of data.json see of one call
Observe(op, path, force_save, r) ==
    /\ ret' = [op |-> op, force |-> force_save, path |-> path,
               attempted |-> r.attempted, wrote |-> r.wrote,
               restored |-> r.restored, raised |-> r.raised]
    /\ written' = IF r.wrote THEN now ELSE written
    /\ calls' = calls + 1

\* time passes
Tick ==
    /\ now + TickStep <= MaxTime
    /\ now' = now + TickStep
    /\ UNCHANGED <<data_json, data_json_mtime, data_backup_json, corrupted_backups,
                   last_save_time, save_queue, data, calls, written, ret>>

\* self.data = load_data()
LoadData ==
    /\ calls < MaxCalls
    /\ \E io \in IOOutcomes :
         LET r == load_data(Store, now, io)
         IN /\ SetStore(r.st)
            /\ data' = r.result
            /\ Observe("load", r.path, FALSE, r)
    /\ UNCHANGED now

\* save_data(self.data) / save_data(ctx.bot.data, force_save)
SaveData ==
    /\ calls < MaxCalls
    /\ data # NoData
    /\ \E io \in IOOutcomes, force_save \in BOOLEAN :
         LET r == save_data(Store, data, force_save, now, io)
         IN /\ SetStore(r.st)
            /\ Observe("save", "save", force_save, r)
    /\ UNCHANGED <<now, data>>

\* the autorole command: set (v = 1) or disable (v = 0) the guild's autorole,
\* then save_data(ctx.bot.data); disabling when none is set saves nothing
Autorole ==
    /\ calls < MaxCalls
    /\ data # NoData
    /\ \E io \in IOOutcomes, v \in {0, 1} :
         LET cur == IF "autoroles" \in DOMAIN data THEN data["autoroles"] ELSE 0
             d == [k \in (DOMAIN data) \cup {"autoroles"} |->
                      IF k = "autoroles" THEN v ELSE data[k]]
             changed == v = 1 \/ cur # 0
             r == save_data(Store, d, FALSE, now, io)
         IN /\ changed
            /\ data' = d
            /\ SetStore(r.st)
            /\ Observe("save", "autorole", FALSE, r)
    /\ UNCHANGED now


-----------------------------------------------------------------------------
(* Router configuration and actions *)

W_mid == <<"m", "i", "d">>
W_vip == <<"v", "i", "p">>
W_old == <<"o", "l", "d">>
W_bad == <<"b", "a", "d">>

\* bot.custom_commands as the addcmd command leaves it: gif is also a built-in,
\* vip is bound to the bot's own top role, old to a role that was deleted, and
\* bad holds a role name where a record or an integer is expected
CustomConfig ==
    StrKey(Guild) :>
        (W_gif :> [kind |-> "dict", role_id |-> "r1"] @@
         W_mid :> [kind |-> "dict", role_id |-> "r2"] @@
         W_vip :> [kind |-> "int",  role_id |-> "r3"] @@
         W_old :> [kind |-> "dict", role_id |-> "r9"] @@
         W_bad :> [kind |-> "str",  role_id |-> "r1"])

\* bot.data['aliases']: r and !r stand for req, v for vip, g and !g for gif,
\* q for req (stored without a prefix only), x and !x for r, itself an alias
AliasConfig ==
    StrKey(Guild) :>
        (<<"r">> :> W_req @@ <<"!", "r">> :> W_req @@ <<"v">> :> W_vip @@
         <<"g">> :> W_gif @@ <<"!", "g">> :> W_gif @@
         <<"q">> :> W_req @@
         <<"x">> :> <<"r">> @@ <<"!", "x">> :> <<"r">>)

InitialRoles ==
    "owner" :> {} @@ "mod" :> {"r2"} @@ "member" :> {} @@ Bot :> {"r3"}

NoMessage ==
    [msg |-> [author |-> Bot, guild |-> NoGuild, content |-> <<>>, mentions |-> <<>>,
              mention_everyone |-> FALSE],
     stage |-> "none", handler |-> "none", via |-> "none", cmd |-> <<>>,
     starts |-> <<>>,
     content |-> <<>>, calls |-> <<>>, sends |-> <<>>, notices |-> <<>>,
     raised |-> "none", roles_before |-> InitialRoles, used_before |-> 0,
     afk_for |-> "none"]

InitRouter ==
    /\ no_prefix_users \in {{"mod"}, {"owner", "member"}}
    /\ custom_commands = CustomConfig
    /\ aliases = AliasConfig
    /\ guild_prefixes \in {<<>>, IntKey(Guild) :> <<"?">>}
    /\ afk_users = {"member"}
    /\ message_timestamps = [has |-> FALSE, ts |-> <<>>]
    /\ mention_cooldowns = <<>>
    /\ command_cooldowns = <<>>
    /\ commands_used = 0
    /\ member_roles = InitialRoles
    /\ msgs = 0
    /\ out = NoMessage
    /\ passed = <<>>
    /\ greeted = <<>>

\* the router is not running
RouterIdle ==
    /\ no_prefix_users = {}
    /\ custom_commands = <<>>
    /\ aliases = <<>>
    /\ guild_prefixes = <<>>
    /\ afk_users = {}
    /\ message_timestamps = [has |-> FALSE, ts |-> <<>>]
    /\ mention_cooldowns = <<>>
    /\ command_cooldowns = <<>>
    /\ commands_used = 0
    /\ member_roles = InitialRoles
    /\ msgs = 0
    /\ out = NoMessage
    /\ passed = <<>>
    /\ greeted = <<>>

\* roles the guild may have configured as autoroles
AutoroleData ==
    {NoAutorole,
     RoleData("str", <<"r1">>),
     RoleData("str", <<"bad">>),
     RoleData("int", <<"r9">>),
     RoleData("other", <<>>),
     RoleData("list", <<"r1", "r2">>),
     RoleData("list", <<"r9", "r1">>),
     RoleData("list", <<"r2", "bad", "r3", "r1">>),
     RoleData("list", <<"r4", "r1">>)}

NoJoin == [handled |-> FALSE, total |-> 0, calls |-> <<>>, granted |-> {},
           assigned |-> 0, report |-> <<>>]

\* outcomes of member.add_roles, per role
AddOutcomes == [{"r1", "r2", "r3", "r4", "r9"} -> {"ok", "Forbidden", "HTTPException"}]

NoOutcomes == [x \in {"r1", "r2", "r3", "r4", "r9"} |-> "ok"]

\* welcome configurations a guild may have stored
WelcomeConfigs ==
    {NoWelcome,
     WelcomeData(FALSE, "hi", "c1"),
     WelcomeData(TRUE, "hi", "c1"),
     WelcomeData(TRUE, "gone", "c1"),
     WelcomeData(TRUE, "hi", "c9"),
     WelcomeData(TRUE, "hi", "bad"),
     WelcomeData(TRUE, "", "c1")}

NoWelcomeResult == [sent |-> FALSE, tried |-> FALSE, raised |-> "none"]

\* nobody has joined
IdleJoin ==
    [data |-> [autoroles |-> NoAutorole, autoroles_bot |-> NoAutorole,
               welcome_systems |-> NoWelcome],
     manage_roles |-> TRUE, bot_roles |-> {"r3"}, member_bot |-> FALSE,
     outs |-> NoOutcomes, wsend |-> "ok", result |-> NoJoin, welcome |-> NoWelcomeResult,
     joins |-> 0]

InitJoin ==
    joined \in [data : [autoroles : AutoroleData,
                        autoroles_bot : {RoleData("str", <<"r2">>)},
                        welcome_systems : WelcomeConfigs],
                manage_roles : BOOLEAN,
                bot_roles : {{"r3"}, {"r2"}},
                member_bot : {FALSE},
                outs : {NoOutcomes},
                wsend : {"ok"},
                result : {NoJoin},
                welcome : {NoWelcomeResult},
                joins : {0}]

InitRetry ==
    retry \in [is_hosted : BOOLEAN, attempt : {0}, pc : {"loop"}, starts : {0},
               sleeps : {<<>>}, last : {"none"}, error : {"none"}]

\* no message is being processed by a task
IdleInflight == [tasks |-> <<>>, started |-> <<>>, welcomed |-> <<>>, afk0 |-> {}]

\* massrole has not been called
IdleMass == [pc |-> "idle", bot_roles |-> {"r3"}, held0 |-> {}, held |-> {},
             role_obj |-> "None", users |-> <<>>, i |-> 0,
             success_count |-> 0, succeeded |-> <<>>, failed_users |-> <<>>,
             adds |-> <<>>, sends |-> <<>>, raised |-> "none"]

IdleRetry == [is_hosted |-> FALSE, attempt |-> 0, pc |-> "loop", starts |-> 0,
              sleeps |-> <<>>, last |-> "none", error |-> "none"]

\* "self.deleted_messages = []" of the constructor; no delete event so far
IdleSnipe == [deleted_messages |-> [kind |-> "list", items |-> <<>>],
              log |-> <<>>, raised |-> "none"]

\* nobody joins, the process is not being started, no task runs
LifecycleIdle ==
    /\ joined = IdleJoin
    /\ retry = IdleRetry
    /\ inflight = IdleInflight
    /\ mass = IdleMass
    /\ snipe = IdleSnipe

\* the store is not running
StoreIdle ==
    /\ data_json = Absent
    /\ data_json_mtime = 0
    /\ data_backup_json = Absent
    /\ corrupted_backups = {}
    /\ last_save_time = 0
    /\ save_queue = FALSE
    /\ data = NoData
    /\ calls = 0
    /\ written = -1
    /\ ret = NoCall

storeIdleVars == <<data_json, data_json_mtime, data_backup_json, corrupted_backups,
                   last_save_time, save_queue, data, calls, written, ret>>

SetRouter(r) ==
    /\ out' = r.out
    /\ message_timestamps' = r.ts
    /\ afk_users' = r.afk
    /\ mention_cooldowns' = r.mcd
    /\ command_cooldowns' = r.cooldowns
    /\ commands_used' = r.used
    /\ member_roles' = r.roles
    /\ passed' = IF r.out.stage \in {"bot", "throttled"} THEN passed
                  ELSE Append(passed, now)
    /\ greeted' = IF "greeting" \in Range(r.out.notices)
                   THEN Append(greeted, <<r.out.msg.author, now>>)
                   ELSE greeted

\* the platform delivers message m
OnMessage(m, io) ==
    /\ SetRouter(on_message(m, now, io))
    /\ msgs' = msgs + 1
    /\ UNCHANGED <<configVars, now, storeIdleVars, lifecycleVars>>

Msg(a, g, c, ms) ==
    [author |-> a, guild |-> g, content |-> c, mentions |-> ms, mention_everyone |-> FALSE]

\* message texts
RouterContents ==
    {<<"!">> \o W_gif, W_gif, <<"!", "G", "I", "F">>, <<"G", "I", "F">>, <<"?">> \o W_gif,
     <<"!">> \o W_req, W_req, <<"!">> \o W_vip, W_vip,
     <<"!", "r">>, <<"r">>, <<"!", "g">>, <<"g">>, <<"!", " ">> \o W_gif, <<"!">> \o W_gif \o <<" ", "a">>,
     <<"!">> \o W_help, <<"h", "i">>, <<"!", "h", "i">>, <<>>,
     <<"!", "q">>, <<"q">>, <<"!", "x">>, <<"x">>, <<"!", "r", " ", "a">>, <<"!">>}

RouterMessages ==
    {Msg(a, Guild, c, <<>>) : a \in Humans, c \in RouterContents}
    \cup {Msg(a, Guild, c, <<"member">>) :
            a \in Humans, c \in {<<"!">> \o W_gif, W_gif, <<"!">> \o W_vip}}
    \cup {Msg(a, NoGuild, c, <<>>) :
            a \in {"mod", "member"}, c \in {<<"!">> \o W_gif, W_gif, <<"!">>}}
    \cup {Msg(a, Guild, <<"@">>, <<Bot>>) : a \in Humans}
    \cup {Msg(Bot, Guild, <<"!">> \o W_gif, <<>>)}

CustomMessages ==
    {Msg(a, Guild, <<"!">> \o w, ms) :
        a \in Humans, w \in {W_gif, W_mid, W_vip, W_old, W_bad},
        ms \in {<<>>, <<"member">>, <<"mod", "member">>}}

\* the store runs, the router is idle
InitSpecStore ==
    /\ InitStore
    /\ RouterIdle
    /\ LifecycleIdle

NextStore ==
    \/ Tick /\ UNCHANGED <<routerVars, lifecycleVars>>
    \/ LoadData /\ UNCHANGED <<routerVars, lifecycleVars>>
    \/ SaveData /\ UNCHANGED <<routerVars, lifecycleVars>>
    \/ Autorole /\ UNCHANGED <<routerVars, lifecycleVars>>

SpecStore == InitSpecStore /\ [][NextStore]_vars

-----------------------------------------------------------------------------
(* Construction of the bot (src/start_bot.py, ModBot.__init__) and the      *)
(* queued save (src/utils.py, save_data_queued)                             *)

\* force_save_data(): "try: save_data(self.data) ... except Exception"; the
\* call passes no force_save, so it is a plain save_data call
force_save_data(st, d, t, io) ==
    LET s == save_data(st, d, FALSE, t, io)
    IN [s EXCEPT !.raised = IF Catches("Exception", s.raised) THEN "none" ELSE s.raised]

\* save_data_queued(): "if _save_queue: pass"
save_data_queued(st) == st

\* bot = ModBot(): self.data = load_data(), then self.force_save_data(); an
\* exception load_data lets through ends the construction
Construct ==
    /\ calls < MaxCalls
    /\ data = NoData
    /\ \E io1 \in IOOutcomes, io2 \in IOOutcomes :
         LET l == load_data(Store, now, io1)
             f == force_save_data(l.st, l.result, now, io2)
         IN IF l.raised # "none"
            THEN /\ SetStore(l.st)
                 /\ data' = data
                 /\ Observe("load", l.path, FALSE, l)
            ELSE /\ SetStore(f.st)
                 /\ data' = l.result
                 /\ ret' = [op |-> "construct", force |-> FALSE, path |-> l.path,
                            attempted |-> f.attempted, wrote |-> f.wrote,
                            restored |-> f.restored, raised |-> f.raised]
                 /\ written' = IF l.wrote \/ f.wrote THEN now ELSE written
                 /\ calls' = calls + 1
    /\ UNCHANGED now

\* the periodic task calls save_data_queued()
SaveDataQueued ==
    /\ calls < MaxCalls
    /\ data # NoData
    /\ SetStore(save_data_queued(Store))
    /\ ret' = [NoCall EXCEPT !.op = "queued"]
    /\ calls' = calls + 1
    /\ UNCHANGED <<now, data, written>>

\* the process starts: nothing constructed yet
InitSpecBoot ==
    /\ InitStore
    /\ RouterIdle
    /\ LifecycleIdle

NextBoot ==
    \/ Tick /\ UNCHANGED <<routerVars, lifecycleVars>>
    \/ Construct /\ UNCHANGED <<routerVars, lifecycleVars>>
    \/ SaveData /\ UNCHANGED <<routerVars, lifecycleVars>>
    \/ SaveDataQueued /\ UNCHANGED <<routerVars, lifecycleVars>>

SpecBoot == InitSpecBoot /\ [][NextBoot]_vars

\* the router runs on a started process, the store is idle
InitSpecRouter ==
    /\ InitRouter
    /\ StoreIdle
    /\ LifecycleIdle
    /\ now = StartTime

NextRouter ==
    \E m \in RouterMessages :
        msgs < MaxMsgs /\ OnMessage(m, PlatformOutcome("ok", "ok", "ok", "ok"))

SpecRouter == InitSpecRouter /\ [][NextRouter]_vars

InitCustom ==
    /\ InitRouter
    /\ guild_prefixes = <<>>

InitSpecCustom ==
    /\ InitCustom
    /\ StoreIdle
    /\ LifecycleIdle
    /\ now = StartTime

NextCustom ==
    \E m \in CustomMessages, io \in PlatformOutcomes :
        msgs < MaxToggles /\ OnMessage(m, io)

SpecCustom == InitSpecCustom /\ [][NextCustom]_vars

\* a member or a bot joins the guild
MemberJoin ==
    /\ joined.joins < MaxJoins
    /\ \E member_bot \in BOOLEAN,
          outs \in {o \in AddOutcomes : o["r3"] = "ok" /\ o["r9"] = "ok"
                                         /\ o["r4"] \in {"ok", "Forbidden"}},
          wsend \in {"ok", "Forbidden", "HTTPException"} :
            LET r == on_member_join(member_bot, joined.data, joined.manage_roles,
                                    joined.bot_roles, outs, wsend)
            IN joined' = [joined EXCEPT
                            !.member_bot = member_bot,
                            !.outs = outs,
                            !.wsend = wsend,
                            !.result = r.autorole,
                            !.welcome = r.welcome,
                            !.joins = @ + 1]
    /\ UNCHANGED <<storeIdleVars, now, routerVars, retry, inflight, mass, snipe>>

InitSpecJoin ==
    /\ InitJoin
    /\ retry = IdleRetry
    /\ inflight = IdleInflight
    /\ mass = IdleMass
    /\ snipe = IdleSnipe
    /\ StoreIdle
    /\ RouterIdle
    /\ now = StartTime

NextJoin == MemberJoin

SpecJoin == InitSpecJoin /\ [][NextJoin]_vars

\* bot.start(BOT_TOKEN) is attempted once more
RetryAttempt ==
    /\ retry.pc = "loop"
    /\ \E outcome \in StartOutcomes, hint \in {0, RetryAfterHint} :
          /\ (hint # 0 => outcome = "429")
          /\ retry' = retry_attempt(retry, outcome, hint)
    /\ UNCHANGED <<storeIdleVars, now, routerVars, joined, inflight, mass, snipe>>

InitSpecRetry ==
    /\ InitRetry
    /\ joined = IdleJoin
    /\ inflight = IdleInflight
    /\ mass = IdleMass
    /\ snipe = IdleSnipe
    /\ StoreIdle
    /\ RouterIdle
    /\ now = StartTime

NextRetry == RetryAttempt

SpecRetry == InitSpecRetry /\ [][NextRetry]_vars

(* massrole(ctx, role, users), src/commands/roles.py                        *)
(* mass.held is the set of members that hold the role; the positions in     *)
(* users of the members add_roles was called for, counted as success and    *)
(* recorded as failed are kept in adds, succeeded and failed_users.         *)

\* the guards in front of the loop: the reply that ends the command, or "none"
massrole_guard(has_manage_roles, role_obj, users, bot_roles) ==
    IF ~has_manage_roles THEN "NoPermission"
    ELSE IF users = <<>> THEN "NoUsers"
    ELSE IF role_obj = "None" THEN "RoleNotFound"
    ELSE IF role_ge(role_obj, top_role(bot_roles)) THEN "HierarchyError"
    ELSE "none"

\* tally that leaves out the members who hold the role already
tally_held_left_out(ms, k, has_role, outcome) ==
    IF has_role THEN ms
    ELSE IF outcome = "ok"
    THEN [ms EXCEPT !.success_count = @ + 1, !.succeeded = Append(@, k),
                    !.adds = Append(@, k), !.held = @ \cup {ms.users[k]}]
    ELSE [ms EXCEPT !.failed_users = Append(@, k), !.adds = Append(@, k)]

\* the body of "for user in users", for the member at position k
tally(ms, k, has_role, outcome) ==
    IF has_role
    THEN [ms EXCEPT !.success_count = @ + 1, !.succeeded = Append(@, k)]
    ELSE IF outcome = "ok"
    THEN [ms EXCEPT !.success_count = @ + 1, !.succeeded = Append(@, k),
                    !.adds = Append(@, k), !.held = @ \cup {ms.users[k]}]
    ELSE [ms EXCEPT !.failed_users = Append(@, k), !.adds = Append(@, k)]

\* the user lists a caller may give
MassUsers == {<<>>, <<"member">>, <<"owner", "mod", "member">>, <<"mod", "member", "mod">>}

\* the command is called: the guards, then the "Processing..." message
MassStart ==
    /\ mass.pc = "idle"
    /\ \E has_manage_roles \in BOOLEAN, role_obj \in {"r1", "r2", "r3", "None"},
          users \in MassUsers, send \in {"ok", "HTTPException"} :
          LET g == massrole_guard(has_manage_roles, role_obj, users, mass.bot_roles)
              ms == [mass EXCEPT !.role_obj = role_obj, !.users = users]
          IN mass' =
               IF g # "none"
               THEN [ms EXCEPT !.pc = IF send = "ok" THEN "refused" ELSE "raised",
                               !.sends = IF send = "ok" THEN <<g>> ELSE <<>>,
                               !.raised = IF send = "ok" THEN "none" ELSE send]
               ELSE IF send = "ok"
               THEN [ms EXCEPT !.pc = "loop", !.sends = <<"Processing">>]
               ELSE [ms EXCEPT !.pc = "raised", !.raised = send]
    /\ UNCHANGED <<storeIdleVars, now, routerVars, joined, retry, inflight, snipe>>

\* one pass of the loop
MassStep ==
    /\ mass.pc = "loop"
    /\ mass.i < Len(mass.users)
    /\ \E outcome \in {"ok", "Forbidden", "HTTPException", "Exception"} :
          mass' = [tally(mass, mass.i + 1, mass.users[mass.i + 1] \in mass.held, outcome)
                      EXCEPT !.i = @ + 1]
    /\ UNCHANGED <<storeIdleVars, now, routerVars, joined, retry, inflight, snipe>>

\* "await progress_msg.edit(embed=result_embed)"
MassFinish ==
    /\ mass.pc = "loop"
    /\ mass.i = Len(mass.users)
    /\ \E edit \in {"ok", "HTTPException"} :
          mass' = IF edit = "ok"
                  THEN [mass EXCEPT !.pc = "done", !.sends = Append(@, "Complete")]
                  ELSE [mass EXCEPT !.pc = "raised", !.raised = edit]
    /\ UNCHANGED <<storeIdleVars, now, routerVars, joined, retry, inflight, snipe>>

InitSpecMass ==
    /\ mass \in {[IdleMass EXCEPT !.bot_roles = b, !.held0 = h, !.held = h] :
                    b \in {{"r3"}, {"r2"}}, h \in {{}, {"mod"}}}
    /\ joined = IdleJoin
    /\ retry = IdleRetry
    /\ inflight = IdleInflight
    /\ snipe = IdleSnipe
    /\ StoreIdle
    /\ RouterIdle
    /\ now = StartTime

NextMass ==
    \/ MassStart
    \/ MassStep
    \/ MassFinish

SpecMass == InitSpecMass /\ [][NextMass]_vars

-----------------------------------------------------------------------------
(* ModBot.on_message_delete(message) (src/start_bot.py)                     *)

\* guilds a deleted message may come from; NoGuild for a direct message
SnipeGuilds == {"g1", "g2"}

\* the last n elements of s: s[-n:]
LastN(s, n) == IF Len(s) <= n THEN s ELSE SubSeq(s, Len(s) - n + 1, Len(s))

\* on_message_delete on the value dm of self.deleted_messages, which the
\* constructor sets ("hasattr" holds from then on): a list takes neither
\* "guild_id not in ..." as a key test nor "[guild_id] = []" as an insertion
on_message_delete(dm, message) ==
    IF message.author_bot THEN [deleted_messages |-> dm, raised |-> "none"]
    ELSE IF message.guild = NoGuild THEN [deleted_messages |-> dm, raised |-> "none"]
    ELSE IF dm.kind = "list"
    THEN IF message.guild \notin Range(dm.items)
         THEN \* "self.deleted_messages[guild_id] = []" on a list
              [deleted_messages |-> dm, raised |-> "IndexError"]
         ELSE \* "self.deleted_messages[guild_id].append" on a list
              [deleted_messages |-> dm, raised |-> "IndexError"]
    ELSE LET cur == IF message.guild \in DOMAIN dm.map THEN dm.map[message.guild] ELSE <<>>
             kept == LastN(Append(cur, message.id), SnipeCap)
         IN [deleted_messages |->
                [dm EXCEPT !.map = [g \in (DOMAIN dm.map) \cup {message.guild} |->
                                       IF g = message.guild THEN kept ELSE dm.map[g]]],
             raised |-> "none"]

\* the platform reports that a message was deleted
MessageDelete ==
    /\ Len(snipe.log) < MaxDeletes
    /\ \E author_bot \in BOOLEAN, g \in SnipeGuilds \cup {NoGuild} :
          LET message == [id |-> Len(snipe.log) + 1, author_bot |-> author_bot, guild |-> g]
              r == on_message_delete(snipe.deleted_messages, message)
          IN snipe' = [deleted_messages |-> r.deleted_messages,
                       log |-> Append(snipe.log, message),
                       raised |-> r.raised]
    /\ UNCHANGED <<storeIdleVars, now, routerVars, joined, retry, inflight, mass>>

InitSpecSnipe ==
    /\ snipe = IdleSnipe
    /\ joined = IdleJoin
    /\ retry = IdleRetry
    /\ inflight = IdleInflight
    /\ mass = IdleMass
    /\ StoreIdle
    /\ RouterIdle
    /\ now = StartTime

NextSnipe == MessageDelete

SpecSnipe == InitSpecSnipe /\ [][NextSnipe]_vars

(* on_message as the event loop runs it: every delivered message gets a task *)
(* of its own, and a task gives way to the others where on_message awaits:  *)
(* at the fixed delay and at the send of the AFK notice.  Tasks become      *)
(* runnable in the order they were created and equal delays end in the      *)
(* order they began; a send takes as long as the platform takes.  The       *)
(* messages of this specification do not mention the bot, so the greeting   *)
(* block is passed over.                                                    *)

\* commands of two users, with and without a mention of another user
TaskMessages ==
    {Msg(a, Guild, <<"!">> \o W_req, ms) :
        a \in {"member", "owner"}, ms \in {<<>>, <<"mod">>}}

SetTask(i, pc) == [inflight.tasks EXCEPT ![i].pc = pc]

\* on_message up to "await asyncio.sleep(0.1)"
DeliverMessage(m) ==
    /\ Len(inflight.tasks) < MaxInflight
    /\ message_timestamps' = throughput_guard(message_timestamps, now).ts
    /\ inflight' = [inflight EXCEPT !.tasks = Append(@,
                        [msg |-> m,
                         pc |-> IF throughput_guard(message_timestamps, now).throttled
                                THEN "dropped" ELSE "sleep"])]
    /\ UNCHANGED <<configVars, afk_users, mention_cooldowns, command_cooldowns,
                   commands_used, member_roles, msgs, out, passed, greeted>>
    /\ UNCHANGED <<storeIdleVars, now, joined, retry, mass, snipe>>

\* "Process in guild only" to the end of on_message, for task i
Dispatch(i, r, welcomed1) ==
    /\ member_roles' = r.roles
    /\ commands_used' = r.used
    /\ command_cooldowns' = r.cooldowns
    /\ inflight' = [inflight EXCEPT
                      !.tasks = SetTask(i, "done"),
                      !.welcomed = welcomed1,
                      !.started = IF r.handler # "none" THEN Append(@, i) ELSE @]

\* the delay of task i is over: the AFK block, then either the await of the
\* AFK notice or the rest of on_message
WakeTask(i) ==
    /\ inflight.tasks[i].pc = "sleep"
    /\ \A j \in 1..(i - 1) : inflight.tasks[j].pc # "sleep"
    /\ LET m == inflight.tasks[i].msg
           afk1 == clear_afk(afk_users, m.author)
           welcomed1 == IF m.author \in afk_users
                        THEN Append(inflight.welcomed, i) ELSE inflight.welcomed
       IN /\ afk_users' = afk1
          /\ IF first_mention_afk(m.mentions, afk1)
             THEN /\ inflight' = [inflight EXCEPT !.tasks = SetTask(i, "afk_send"),
                                                  !.welcomed = welcomed1]
                  /\ UNCHANGED <<member_roles, commands_used, command_cooldowns>>
             ELSE Dispatch(i, route(m, now, PlatformOutcome("ok", "ok", "ok", "ok")),
                           welcomed1)
    /\ UNCHANGED <<configVars, message_timestamps, mention_cooldowns, msgs, out,
                   passed, greeted>>
    /\ UNCHANGED <<storeIdleVars, now, joined, retry, mass, snipe>>

\* the send of the AFK notice of task i has returned or raised HTTPException
NoticeDone(i) ==
    /\ inflight.tasks[i].pc = "afk_send"
    /\ Dispatch(i, route(inflight.tasks[i].msg, now, PlatformOutcome("ok", "ok", "ok", "ok")),
                inflight.welcomed)
    /\ UNCHANGED <<configVars, afk_users, message_timestamps, mention_cooldowns, msgs,
                   out, passed, greeted>>
    /\ UNCHANGED <<storeIdleVars, now, joined, retry, mass, snipe>>

InitSpecTasks ==
    /\ no_prefix_users = {"mod"}
    /\ custom_commands = CustomConfig
    /\ aliases = AliasConfig
    /\ guild_prefixes = <<>>
    /\ afk_users \in {{"member", "mod"}, {"member"}}
    /\ message_timestamps = [has |-> FALSE, ts |-> <<>>]
    /\ mention_cooldowns = <<>>
    /\ command_cooldowns = <<>>
    /\ commands_used = 0
    /\ member_roles = InitialRoles
    /\ msgs = 0
    /\ out = NoMessage
    /\ passed = <<>>
    /\ greeted = <<>>
    /\ StoreIdle
    /\ joined = IdleJoin
    /\ retry = IdleRetry
    /\ mass = IdleMass
    /\ snipe = IdleSnipe
    /\ inflight = [tasks |-> <<>>, started |-> <<>>, welcomed |-> <<>>,
                   afk0 |-> afk_users]
    /\ now = StartTime

NextTasks ==
    \/ \E m \in TaskMessages : DeliverMessage(m)
    \/ \E i \in DOMAIN inflight.tasks : WakeTask(i)
    \/ \E i \in DOMAIN inflight.tasks : NoticeDone(i)

SpecTasks == InitSpecTasks /\ [][NextTasks]_vars

\* messages of AFK users and messages that mention them
NoticeMessages ==
    {Msg(a, Guild, c, ms) :
        a \in Humans,
        c \in {<<"!">> \o W_gif, <<"!">> \o W_vip, <<"!">> \o W_help, <<"h", "i">>},
        ms \in {<<>>, <<"member">>, <<"mod">>, <<"mod", "member">>, <<"member", "mod">>}}

NoticeMessage ==
    \E m \in NoticeMessages,
       io \in {PlatformOutcome("ok", "ok", "ok", "ok"),
               PlatformOutcome("ok", "ok", "ok", "HTTPException"),
               PlatformOutcome("ok", "ok", "ok", "Forbidden")} :
        msgs < MaxMsgs /\ OnMessage(m, io)

\* some users are AFK
InitSpecNotice ==
    /\ no_prefix_users = {"mod"}
    /\ custom_commands = CustomConfig
    /\ aliases = AliasConfig
    /\ guild_prefixes = <<>>
    /\ afk_users \in {{}, {"member"}, {"mod"}, {"mod", "member"}}
    /\ message_timestamps = [has |-> FALSE, ts |-> <<>>]
    /\ mention_cooldowns = <<>>
    /\ command_cooldowns = <<>>
    /\ commands_used = 0
    /\ member_roles = InitialRoles
    /\ msgs = 0
    /\ out = NoMessage
    /\ passed = <<>>
    /\ greeted = <<>>
    /\ StoreIdle
    /\ LifecycleIdle
    /\ now = StartTime

NextNotice == NoticeMessage

SpecNotice == InitSpecNotice /\ [][NextNotice]_vars

\* one configuration of the router, on a started process
InitOneGuild ==
    /\ InitRouter
    /\ no_prefix_users = {"mod"}
    /\ guild_prefixes = <<>>
    /\ StoreIdle
    /\ LifecycleIdle
    /\ now = StartTime

\* a burst of plain messages: the owner's, and those of a member who is AFK
FloodMessages ==
    {Msg("owner", Guild, <<"h", "i">>, <<>>), Msg("member", Guild, <<"h", "i">>, <<>>)}

FloodMessage ==
    \E m \in FloodMessages :
        msgs < MaxFlood /\ OnMessage(m, PlatformOutcome("ok", "ok", "ok", "ok"))

\* the channel is quiet for the length of the throughput window
FloodPause ==
    /\ now + MsgWindow <= MaxTime
    /\ now' = now + MsgWindow
    /\ UNCHANGED <<storeIdleVars, routerVars, lifecycleVars>>

NextFlood ==
    \/ FloodMessage
    \/ FloodPause

SpecFlood == InitOneGuild /\ [][NextFlood]_vars

\* messages that mention the bot: alone, in a guild and in a direct message,
\* and with a second word
GreetMessages ==
    {Msg(a, Guild, <<"@">>, <<Bot>>) : a \in {"owner", "member"}}
    \cup {Msg("mod", NoGuild, <<"@">>, <<Bot>>),
          Msg("owner", Guild, <<"@", " ", "h", "i">>, <<Bot>>)}

GreetMessage ==
    \E m \in GreetMessages,
       io \in {PlatformOutcome("ok", "ok", "ok", "ok"),
               PlatformOutcome("ok", "ok", "ok", "HTTPException")} :
        msgs < MaxGreets /\ OnMessage(m, io)

\* time passes between two messages
RouterTick ==
    /\ now + TickStep <= MaxTime
    /\ now' = now + TickStep
    /\ UNCHANGED <<storeIdleVars, routerVars, lifecycleVars>>

NextGreet ==
    \/ GreetMessage
    \/ RouterTick

SpecGreet == InitOneGuild /\ [][NextGreet]_vars

\* json.dump followed by json.load on a dict: every key comes back as a string
json_object(d) == [k \in {StrKey(x[2]) : x \in DOMAIN d} |->
                     IF StrKey(k[2]) \in DOMAIN d THEN d[StrKey(k[2])] ELSE d[IntKey(k[2])]]

\* the guild_prefixes section a process may have written to data.json: none
\* for the guild, or "?" for it
StoredPrefixes == {<<>>, IntKey(Guild) :> <<"?">>, StrKey(Guild) :> <<"?">>}

\* "guild_prefixes = self.data.get('guild_prefixes', {})" on the loaded document
InitPrefix ==
    /\ no_prefix_users = {"mod"}
    /\ custom_commands = CustomConfig
    /\ aliases = AliasConfig
    /\ guild_prefixes \in {json_object(d) : d \in StoredPrefixes}
    /\ afk_users = {}
    /\ message_timestamps = [has |-> FALSE, ts |-> <<>>]
    /\ mention_cooldowns = <<>>
    /\ command_cooldowns = <<>>
    /\ commands_used = 0
    /\ member_roles = InitialRoles
    /\ msgs = 0
    /\ out = NoMessage
    /\ passed = <<>>
    /\ greeted = <<>>
    /\ StoreIdle
    /\ LifecycleIdle
    /\ now = StartTime

\* commands typed with the stored prefix, with the default one and with none
PrefixMessages ==
    {Msg(a, g, p \o w, <<>>) :
        a \in {"mod", "member"}, g \in {Guild, NoGuild},
        p \in {<<"?">>, <<"!">>, <<>>}, w \in {W_gif, W_mid, W_help}}

PrefixMessage ==
    \E m \in PrefixMessages :
        msgs < MaxMsgs /\ OnMessage(m, PlatformOutcome("ok", "ok", "ok", "ok"))

NextPrefix == PrefixMessage

SpecPrefix == InitPrefix /\ [][NextPrefix]_vars

\* a user who sends one built-in command after the other
CommandMessages ==
    {Msg("member", Guild, <<"!">> \o W_req, <<>>), Msg("member", Guild, <<"!">> \o W_help, <<>>)}

CommandMessage ==
    \E m \in CommandMessages :
        msgs < MaxCommands /\ OnMessage(m, PlatformOutcome("ok", "ok", "ok", "ok"))

NextCommands ==
    \/ CommandMessage
    \/ RouterTick

SpecCommands == InitOneGuild /\ [][NextCommands]_vars

-----------------------------------------------------------------------------
(* Properties of the store *)

\* a store call is made in this step
StoreCall == calls' = calls + 1

\* C6 - Persistence rate limit.  A non-forced save_data call (made directly or
\* by load_data) less than 30 seconds after the last completed write leaves
\* data.json, its mtime and data_backup.json untouched and only sets the
\* pending flag; a non-forced call that does write therefore comes at least 30
\* seconds after the previous completed write; a forced call goes on to the
\* write whatever the window.
C6_RateLimit ==
    [][StoreCall =>
         /\ (~ret'.force /\ written >= 0 /\ now - written < SaveWindow) =>
               /\ ~ret'.attempted /\ ~ret'.wrote
               /\ data_json' = data_json
               /\ data_json_mtime' = data_json_mtime
               /\ data_backup_json' = data_backup_json
               /\ save_queue'
         /\ (~ret'.force /\ ret'.wrote /\ written >= 0) => now - written >= SaveWindow
         /\ (ret'.op = "save" /\ ret'.force) => ret'.attempted]_vars

\* C6 witness: a non-forced call was deferred inside the window of an earlier write
C6_Witness ==
    /\ ret.op = "save" /\ ~ret.force /\ ~ret.attempted
    /\ written >= 0 /\ now - written < SaveWindow
    /\ save_queue

\* C7 - Corrupt-load recovery.  When data.json does not parse, load_data returns
\* the default document of the file-absent branch and the unparseable content
\* is kept in a timestamped data_backup_corrupted_<ts>.json file.
C7_CorruptLoadRecovery ==
    [][(StoreCall /\ ret'.op = "load" /\ ret'.path = "corrupt") =>
         /\ data' = DefaultData
         /\ \E b \in corrupted_backups' : b[2] = data_json]_vars

\* Sections the rest of the system reads from bot.data
ReadKeys ==
    {"no_prefix_users", "custom_commands", "guild_prefixes", "aliases",
     "autoroles", "autoroles_bot", "welcome_systems", "embed_templates"}

\* C8 - Post-load key invariant.  Whatever branch load_data took, the document it
\* returned holds every section the rest of the system reads.
C8_PostLoadKeys ==
    [][(StoreCall /\ ret'.op = "load") => ReadKeys \subseteq DOMAIN data']_vars

\* C9 - Load persists the corrected document.  When load_data parses a document
\* that lacks required keys, the same call goes on to write the filled-in
\* document to data.json, whatever the time since the last completed write
\* (a write that completes leaves data.json equal to the returned document).
C9_LoadPersistsCorrected ==
    [][(/\ StoreCall /\ ret'.op = "load" /\ ret'.path = "valid"
        /\ ~(RequiredKeys \subseteq DOMAIN data_json.doc)) =>
         /\ ret'.attempted
         /\ ret'.wrote => data_json' = DocFile(data')]_vars

\* C10 - The store never fails the process.  No exception reaches the caller of
\* load_data or save_data, whatever the storage outcome.
C10_StoreNeverRaises ==
    ret.op # "none" => ret.raised = "none"

\* C10 witness: a load of an unparseable file whose recovery write failed and
\* whose restore from data_backup.json failed as well
C10_Witness ==
    /\ ret.op = "load" /\ ret.path = "corrupt"
    /\ ret.attempted /\ ~ret.wrote /\ ~ret.restored
    /\ data_backup_json # Absent
    /\ ret.raised = "none"

-----------------------------------------------------------------------------
(* Properties of the router *)

\* the last message went through the guild routing block
Routed == out.stage = "routed" /\ out.msg.guild = Guild

\* names of the guild's custom commands
CustomNames(g) ==
    IF StrKey(g) \in DOMAIN custom_commands THEN DOMAIN custom_commands[StrKey(g)] ELSE {}

\* text c is not prefixed and its first word is x
Bare(c, x) ==
    /\ ~startswith(c, get_current_prefix(Guild))
    /\ split(c) # <<>>
    /\ lower(split(c)[1]) = x

\* text c sent by author a invokes x: the word right after the prefix is x, or c
\* is bare, its first word is x and a is a no-prefix user
Invokes(a, c, x) ==
    \/ /\ startswith(c, get_current_prefix(Guild))
       /\ lower(get_word(Drop(c, Len(get_current_prefix(Guild))))) = x
    \/ Bare(c, x) /\ a \in no_prefix_users

\* C1 - Router precedence.  When a guild message that reaches the routing step
\* invokes, as typed or after alias substitution, a name that is both a custom
\* command of the guild and a built-in command - prefixed by any user, or bare
\* by a no-prefix user - the custom command executor runs for that name, and a
\* built-in handler never runs for a name that is a custom command of the guild.
C1_RouterPrecedence ==
    Routed =>
      /\ \A x \in CustomNames(Guild) \cap all_commands :
            (\/ Invokes(out.msg.author, out.msg.content, x)
             \/ Invokes(out.msg.author, out.content, x))
               => out.handler = "custom" /\ out.cmd = x
      /\ out.handler = "builtin" => out.cmd \notin CustomNames(Guild)

\* C1 witness: a no-prefix user typed the bare, upper-case name of a command
\* that is both custom and built-in, and the custom executor ran
C1_Witness ==
    /\ Routed
    /\ out.msg.content = <<"G", "I", "F">>
    /\ W_gif \in CustomNames(Guild) \cap all_commands
    /\ out.handler = "custom" /\ out.via = "noprefix" /\ out.cmd = W_gif

\* the last message is a routed guild message, not prefixed, whose first word
\* is a built-in command name
BareBuiltin ==
    /\ Routed
    /\ \E x \in all_commands : Bare(out.msg.content, x)

\* C2 as stated - No-prefix gating.  For a bare built-in name a handler is
\* dispatched exactly when the sender is a no-prefix user; for any other sender
\* no handler runs and nothing at all is sent.
C2_NoPrefixGating_Stated ==
    BareBuiltin =>
      /\ out.handler # "none" <=> out.msg.author \in no_prefix_users
      /\ out.msg.author \notin no_prefix_users =>
            out.calls = <<>> /\ out.sends = <<>> /\ out.notices = <<>>

\* C2 as amended.  For a bare built-in name in a message that reaches the
\* routing step a handler is dispatched exactly when the sender is a no-prefix
\* user; for any other sender no handler runs, no reply is sent and no role call
\* is made - only the AFK side-channel notices may still be emitted.
C2_NoPrefixGating ==
    BareBuiltin =>
      /\ out.handler # "none" <=> out.msg.author \in no_prefix_users
      /\ out.msg.author \notin no_prefix_users =>
            /\ out.calls = <<>> /\ out.sends = <<>> /\ out.raised = "none"
            /\ Range(out.notices) \subseteq {"welcome_back", "afk"}
            /\ commands_used = out.used_before

\* C2 witness: the same bare built-in name was ignored for a sender outside the
\* set, who still got the welcome-back notice
C2_Witness ==
    /\ BareBuiltin
    /\ out.msg.author \notin no_prefix_users
    /\ out.handler = "none"
    /\ out.notices = <<"welcome_back">>

\* C2 witness of the other half: a no-prefix user's bare built-in was dispatched
C2_Dispatched ==
    /\ BareBuiltin
    /\ out.msg.author \in no_prefix_users
    /\ out.handler = "builtin" /\ out.via = "noprefix"

-----------------------------------------------------------------------------
(* Properties of the custom command executor *)

\* the custom command executor was run for the last message
RanCustom == out.stage = "routed" /\ out.handler = "custom"

\* the role the executed command is bound to ("None" if it does not resolve)
BoundRole ==
    LET d == custom_commands[StrKey(out.msg.guild)][out.cmd]
    IN IF d.kind \in {"dict", "int"} /\ d.role_id \in guild_roles
       THEN d.role_id ELSE "None"

Mentioned == out.msg.mentions # <<>>
Target == out.msg.mentions[1]

\* highest rank among the roles a member held when the message arrived
TopRankBefore(u) ==
    LET ranks == {Rank(r) : r \in out.roles_before[u]} \cup {0}
    IN CHOOSE n \in ranks : \A k \in ranks : k <= n

AtOrAboveBot == BoundRole # "None" /\ Rank(BoundRole) >= TopRankBefore(Bot)
AtOrAboveAuthor == BoundRole # "None" /\ Rank(BoundRole) >= TopRankBefore(out.msg.author)
IsOwner == out.msg.author = guild_owner

\* every guard of the executor passes for the last message
GuardsPass ==
    /\ RanCustom /\ Mentioned /\ BoundRole # "None"
    /\ ~AtOrAboveBot
    /\ IsOwner \/ ~AtOrAboveAuthor

RoleCall(op) == [op |-> op, user |-> Target, role |-> BoundRole]

\* the roles of every member but u are as they were, and u's differ from the
\* earlier ones at most by role r
OnlyChanged(before, after, u, r) ==
    /\ \A v \in DOMAIN before : v # u => after[v] = before[v]
    /\ after[u] \ {r} = before[u] \ {r}

\* C3 - Role-toggle round trip.  When all guards pass and the first mentioned
\* user does not hold the bound role R, the invocation issues exactly one call,
\* add_roles(R) on that user, and changes no other role; when the user holds R
\* it issues exactly one call, remove_roles(R); and a grant that took effect
\* followed by the next invocation's removal that took effect leaves every
\* member's role set as it was before the grant.
C3_ToggleRoundTrip ==
    /\ [](GuardsPass =>
          /\ BoundRole \notin out.roles_before[Target] => out.calls = <<RoleCall("add_roles")>>
          /\ BoundRole \in out.roles_before[Target] => out.calls = <<RoleCall("remove_roles")>>
          /\ OnlyChanged(out.roles_before, member_roles, Target, BoundRole))
    /\ [][(/\ GuardsPass /\ out.calls = <<RoleCall("add_roles")>>
           /\ BoundRole \in member_roles[Target]
           /\ msgs' = msgs + 1
           /\ out'.stage = "routed" /\ out'.handler = "custom"
           /\ out'.msg.mentions # <<>> /\ out'.msg.mentions[1] = Target
           /\ out'.calls = <<[op |-> "remove_roles", user |-> Target, role |-> BoundRole]>>
           /\ BoundRole \notin member_roles'[Target])
          => member_roles' = out.roles_before]_vars

\* C3 witness: the second of two invocations removed the role the first one
\* granted, and the roles are back to what they were
C3_Witness ==
    /\ msgs = 2
    /\ GuardsPass
    /\ out.calls = <<RoleCall("remove_roles")>>
    /\ BoundRole \in out.roles_before[Target]
    /\ member_roles = InitialRoles

\* C4 as stated - Hierarchy refusal.  When the bound role ranks at or above the
\* bot's top role, no role call is issued and the reply is the hierarchy error.
C4_HierarchyRefusal_Stated ==
    (RanCustom /\ AtOrAboveBot) =>
        /\ out.calls = <<>>
        /\ Len(out.sends) = 1 /\ out.sends[1].kind = "HierarchyError"

\* C4 as amended.  When the bound role ranks at or above the bot's top role, no
\* role call is issued; the reply is the hierarchy error when the message
\* mentions a user, and the missing-user error when it mentions nobody.
C4_HierarchyRefusal ==
    (RanCustom /\ AtOrAboveBot) =>
        /\ out.calls = <<>>
        /\ member_roles = out.roles_before
        /\ Len(out.sends) = 1
        /\ out.sends[1].kind = IF Mentioned THEN "HierarchyError" ELSE "MissingUser"

\* C4 witness: a command bound to the bot's own top role was refused
C4_Witness ==
    /\ RanCustom /\ AtOrAboveBot /\ Mentioned
    /\ Rank(BoundRole) = TopRankBefore(Bot)
    /\ out.calls = <<>>
    /\ out.sends = <<[kind |-> "HierarchyError", result |-> "ok"]>>

\* C5 as stated - Author guard.  When the invoker is not the guild owner and
\* the bound role ranks at or above the invoker's top role, no role call is
\* issued and the permission error is replied; the owner is exempt from this
\* check, not from the hierarchy check.
C5_AuthorGuard_Stated ==
    /\ (RanCustom /\ ~IsOwner /\ AtOrAboveAuthor) =>
          /\ out.calls = <<>>
          /\ Len(out.sends) = 1 /\ out.sends[1].kind = "PermissionError"
    /\ (RanCustom /\ IsOwner /\ Mentioned /\ BoundRole # "None") =>
          IF AtOrAboveBot THEN out.calls = <<>> /\ out.sends[1].kind = "HierarchyError"
          ELSE Len(out.calls) = 1

\* C5 as amended.  When the invoker is not the guild owner and the bound role
\* ranks at or above the invoker's top role, no role call is issued; the reply
\* is the permission error when the earlier guards pass (a user is mentioned
\* and the role ranks below the bot's top role), and the earlier guard's error
\* otherwise.  The owner is exempt from this check, not from the hierarchy check.
C5_AuthorGuard ==
    /\ (RanCustom /\ ~IsOwner /\ AtOrAboveAuthor) =>
          /\ out.calls = <<>>
          /\ member_roles = out.roles_before
          /\ Len(out.sends) = 1
          /\ out.sends[1].kind =
                IF ~Mentioned THEN "MissingUser"
                ELSE IF AtOrAboveBot THEN "HierarchyError"
                ELSE "PermissionError"
    /\ (RanCustom /\ IsOwner /\ Mentioned /\ BoundRole # "None") =>
          IF AtOrAboveBot THEN out.calls = <<>> /\ out.sends[1].kind = "HierarchyError"
          ELSE Len(out.calls) = 1

\* C5 witness: a member's command for a role at the member's own top rank was
\* refused with the permission error
C5_Witness ==
    /\ RanCustom /\ ~IsOwner /\ AtOrAboveAuthor /\ ~AtOrAboveBot /\ Mentioned
    /\ Rank(BoundRole) = TopRankBefore(out.msg.author)
    /\ out.calls = <<>>
    /\ out.sends = <<[kind |-> "PermissionError", result |-> "ok"]>>

\* C5 witness of the exemption: the owner toggled a role above the owner's own
C5_OwnerExempt ==
    /\ RanCustom /\ IsOwner /\ AtOrAboveAuthor /\ ~AtOrAboveBot /\ Mentioned
    /\ Len(out.calls) = 1

-----------------------------------------------------------------------------
(* Properties of the alias resolver *)

\* the guild's alias map
AliasMap == IF StrKey(Guild) \in DOMAIN aliases THEN aliases[StrKey(Guild)] ELSE <<>>

\* the first whitespace-separated word of a text, lower-cased
FirstWord(c) == IF split(c) = <<>> THEN <<>> ELSE lower(split(c)[1])

\* the last message starts with the guild's prefix
OnPrefixPath == startswith(strip(out.msg.content), get_current_prefix(Guild))

\* the router consults the alias map for the last message
AliasConsulted == OnPrefixPath \/ out.msg.author \in no_prefix_users

\* the text the router went on with, without the prefix that the no-prefix
\* block puts in front of a bare built-in name
Unprefixed(c) ==
    IF out.via = "noprefix" /\ out.handler = "builtin"
    THEN Drop(c, Len(get_current_prefix(Guild)))
    ELSE c

\* C11 - Alias resolution substitutes at most once per message.  A routed
\* message whose first word has no alias entry goes on unchanged; when the first
\* word a has the entry b, the message goes on with b in its place (behind the
\* prefix on the prefix path), also when b is itself a key of the alias map.
C11_AliasOnce ==
    (Routed /\ split(out.msg.content) # <<>>) =>
      LET a == FirstWord(out.msg.content)
          b == IF OnPrefixPath THEN get_current_prefix(Guild) \o AliasMap[a]
               ELSE AliasMap[a]
      IN /\ (a \notin DOMAIN AliasMap \/ ~AliasConsulted) =>
                Unprefixed(out.content) = out.msg.content
         /\ (a \in DOMAIN AliasMap /\ AliasConsulted) =>
                /\ split(Unprefixed(out.content))[1] = b
                /\ Tail(split(Unprefixed(out.content))) = Tail(split(out.msg.content))

\* C11 witness: a no-prefix user typed x, an alias of r, which is an alias of
\* req; the message went on as r and req was not run
C11_Witness ==
    /\ Routed
    /\ out.msg.content = <<"x">> /\ out.msg.author \in no_prefix_users
    /\ AliasMap[<<"x">>] = <<"r">> /\ <<"r">> \in DOMAIN AliasMap
    /\ out.content = <<"r">> /\ out.handler = "none"

\* the last message is the prefix, a token x that the alias map sends to a
\* built-in command, and arguments
PrefixedAliasOfBuiltin(m) ==
    LET prefix == get_current_prefix(Guild)
        x == lower(get_word(Drop(m.content, Len(prefix))))
    IN /\ m.guild = Guild /\ m.author # Bot
       /\ startswith(m.content, prefix)
       /\ x \in DOMAIN AliasMap
       /\ AliasMap[x] \in all_commands

\* the same message typed with the command's own name
Canonical(m) ==
    LET prefix == get_current_prefix(Guild)
        rest == Drop(m.content, Len(prefix))
        x == get_word(rest)
    IN [m EXCEPT !.content = prefix \o AliasMap[lower(x)] \o Drop(rest, Len(x))]

\* what of a message's processing is visible
Visible(o) ==
    [stage |-> o.stage, handler |-> o.handler, cmd |-> o.cmd, content |-> o.content,
     calls |-> o.calls, sends |-> o.sends, raised |-> o.raised]

\* C12 - Alias equivalence on the prefix path.  Where token x is aliased to the
\* built-in command c, the message '<prefix>x <args>' is processed exactly as
\* the message '<prefix>c <args>' would have been: same handler, same command,
\* same routed text, same calls and replies.
C12_AliasEquivalence ==
    [][(msgs' = msgs + 1 /\ PrefixedAliasOfBuiltin(out'.msg)) =>
          Visible(out') =
            Visible(on_message(Canonical(out'.msg), now,
                               PlatformOutcome("ok", "ok", "ok", "ok")).out)]_vars

-----------------------------------------------------------------------------
(* Exception containment *)

\* C14 - Exception containment at the dispatch boundary.  Whatever the message,
\* no exception escapes on_message.
C14_NoEscape == out.raised = "none"

-----------------------------------------------------------------------------
(* More properties of the custom command executor *)

\* C15 - A custom command invoked with no user mention replies with the usage
\* error and stops: whatever the command is bound to, no grant or removal call
\* is issued, no role changes, and the usage error is the only reply.
C15_MissingMention ==
    (RanCustom /\ ~Mentioned) =>
        /\ out.calls = <<>>
        /\ member_roles = out.roles_before
        /\ Len(out.sends) = 1 /\ out.sends[1].kind = "MissingUser"

\* C15 witness: a command whose role was deleted, invoked without a mention, was
\* answered with the usage error, not the role-missing error
C15_Witness ==
    /\ RanCustom /\ ~Mentioned
    /\ out.cmd = W_old /\ BoundRole = "None"
    /\ out.sends = <<[kind |-> "MissingUser", result |-> "ok"]>>

\* the executed command's role does not resolve: it was deleted, or the stored
\* data is neither a record with role_id nor an integer
RoleMissing == RanCustom /\ BoundRole = "None"

\* the custom command map is as it was configured
MapUnchanged ==
    /\ custom_commands = CustomConfig
    /\ out.cmd \in CustomNames(Guild)

\* C16 as stated - When the role of a custom command does not resolve, the
\* executor replies with the role-missing error, issues no role mutation and
\* leaves the custom command map unchanged.
C16_RoleMissing_Stated ==
    RoleMissing =>
        /\ Len(out.sends) = 1 /\ out.sends[1].kind = "RoleNotFound"
        /\ out.calls = <<>> /\ member_roles = out.roles_before
        /\ MapUnchanged

\* C16 as amended.  When the role of a custom command does not resolve, the
\* executor issues no role mutation and leaves the custom command map
\* unchanged; its reply is the role-missing error when the message mentions a
\* user, and the usage error when it mentions nobody.
C16_RoleMissing ==
    RoleMissing =>
        /\ Len(out.sends) = 1
        /\ out.sends[1].kind = IF Mentioned THEN "RoleNotFound" ELSE "MissingUser"
        /\ out.calls = <<>> /\ member_roles = out.roles_before
        /\ MapUnchanged

\* C16 witness: a command holding a role name instead of a record was answered
\* with the role-missing error and is still registered
C16_Witness ==
    /\ RoleMissing /\ Mentioned
    /\ out.cmd = W_bad
    /\ out.sends = <<[kind |-> "RoleNotFound", result |-> "ok"]>>
    /\ W_bad \in CustomNames(Guild)

\* the replies that reached the channel
Delivered(sends) == SelectSeq(sends, LAMBDA x : x.result = "ok")

\* C17 - On every path of one custom command invocation at most one role call
\* is issued and at most one reply reaches the channel; a second send is
\* attempted only by an except clause, after the first send failed or after
\* the role call failed.
C17_OneMutationOneReply ==
    RanCustom =>
        /\ Len(out.calls) <= 1
        /\ Len(Delivered(out.sends)) <= 1
        /\ Len(out.sends) <= 2
        /\ Len(out.sends) = 2 => out.sends[1].result # "ok"

\* C17 witness: the role call went through, the report failed to send and the
\* except clause's error reply was the one reply delivered
C17_Witness ==
    /\ RanCustom /\ Len(out.calls) = 1
    /\ Len(out.sends) = 2
    /\ out.sends[1].result # "ok" /\ out.sends[2].result = "ok"

-----------------------------------------------------------------------------
(* Properties of the guards in front of the router *)

\* the messages that went past the throughput guard in the window ending at t
InWindow(t) == {i \in DOMAIN passed : passed[i] <= t /\ t - passed[i] < MsgWindow}

\* a message is delivered in this step
Delivery == msgs' = msgs + 1

\* C19 - Throughput guard.  In any rolling 30-second window at most 30 messages
\* go past the guard, and a message stopped by the guard is dropped silently:
\* nothing is sent, the AFK entries and the mention cooldowns stay as they
\* were and nothing is dispatched.
C19_ThroughputGuard ==
    /\ [](\A i \in DOMAIN passed : Cardinality(InWindow(passed[i])) <= MsgCeiling)
    /\ [][(Delivery /\ out'.stage = "throttled") =>
            /\ out'.notices = <<>> /\ out'.sends = <<>> /\ out'.calls = <<>>
            /\ out'.handler = "none"
            /\ afk_users' = afk_users
            /\ mention_cooldowns' = mention_cooldowns
            /\ command_cooldowns' = command_cooldowns
            /\ commands_used' = commands_used]_vars

\* the message is nothing but a mention of the bot
MentionOnly(m) ==
    /\ m.author # Bot
    /\ Bot \in Range(m.mentions) /\ ~m.mention_everyone
    /\ Len(split(m.content)) = 1

\* the user is inside the mention cooldown
Cooling(u) ==
    /\ u \in DOMAIN mention_cooldowns
    /\ now - mention_cooldowns[u] < MentionCooldown

\* greetings sent for a user's mentions are at least the cooldown apart
GreetingsApart ==
    \A i, j \in DOMAIN greeted :
        (i < j /\ greeted[i][1] = greeted[j][1]) =>
            greeted[j][2] - greeted[i][2] >= MentionCooldown

\* a suppressed mention leaves the cooldowns as they were and sends no greeting
SuppressedKeeps ==
    (Delivery /\ MentionOnly(out'.msg) /\ Cooling(out'.msg.author)) =>
        /\ mention_cooldowns' = mention_cooldowns
        /\ "greeting" \notin Range(out'.notices)
        /\ out'.stage = "cooldown" /\ out'.handler = "none"

-----------------------------------------------------------------------------
(* C13 *)

\* the configured entries on_member_join went through for the member that joined
Configured ==
    LET role_data == joined.data[IF joined.member_bot THEN "autoroles_bot"
                                 ELSE "autoroles"]
    IN SelectSeq(role_data.ids, LAMBDA x : x # "bad")

\* the role is there and the bot may hand it out
Passes(x) ==
    /\ x \in guild_roles
    /\ joined.manage_roles
    /\ Rank(x) <= Rank(top_role(joined.bot_roles))
    /\ x # top_role(joined.bot_roles)

\* the entries whose grant went through
Grants == {i \in DOMAIN Configured :
              Passes(Configured[i]) /\ joined.outs[Configured[i]] = "ok"}

\* C13: after a member join every configured role that exists, passes the
\* permission and hierarchy checks and whose add_roles succeeds is on the
\* member, whatever happened to the other entries; the count N that is kept
\* is the number of grants that went through, it is at most the number M of
\* entries, and a report, when there is one, says N of M.
C13_PartialAutorole ==
    joined.result.handled /\ joined.result.total > 0 =>
        /\ joined.result.total = Len(Configured)
        /\ \A i \in DOMAIN Configured :
              i \in Grants => Configured[i] \in joined.result.granted
        /\ \A x \in joined.result.granted : \E i \in Grants : Configured[i] = x
        /\ joined.result.assigned = Cardinality(Grants)
        /\ joined.result.assigned <= joined.result.total
        /\ joined.result.report =
              IF Cardinality(Grants) > 0
              THEN <<Cardinality(Grants), Len(Configured)>>
              ELSE <<>>

\* two roles configured, the first deleted, the second granted: "1/2"; and a
\* list where one add_roles failed and a later one went through
C13_Witness ==
    /\ joined.result.handled
    /\ joined.data.autoroles = RoleData("list", <<"r9", "r1">>)
    /\ ~joined.member_bot
    /\ joined.result.report = <<1, 2>>
    /\ joined.result.granted = {"r1"}

C13_WitnessFailedAdd ==
    /\ joined.result.handled
    /\ joined.data.autoroles = RoleData("list", <<"r1", "r2">>)
    /\ ~joined.member_bot
    /\ joined.outs["r1"] = "Forbidden"
    /\ joined.result.report = <<1, 2>>
    /\ joined.result.granted = {"r2"}

-----------------------------------------------------------------------------
(* C18 *)

\* C18: run_bot_with_retry starts the bot at most max_retries times (3, or 5
\* when hosted); after a start that completes it starts nothing more; a
\* failure of the last allowed attempt leaves the function with that error,
\* not silently, and with no sleep after the failed start.
C18_RetryTerminates ==
    /\ [](/\ retry.starts <= (IF retry.is_hosted THEN 5 ELSE 3)
          /\ retry.last = "ok" => retry.pc = "done"
          /\ retry.pc # "exhausted"
          /\ retry.starts = (IF retry.is_hosted THEN 5 ELSE 3) /\ retry.last # "ok" =>
                /\ retry.pc = "raised"
                /\ retry.error = StartError(retry.last)
                /\ retry.sleeps[Len(retry.sleeps)].why = "backoff")
    /\ [][retry.pc \in {"done", "raised"} => retry' = retry]_vars

\* hosted, four failed starts retried, the fifth fails too and is raised
C18_Witness ==
    /\ retry.is_hosted
    /\ retry.starts = 5
    /\ retry.pc = "raised"
    /\ retry.last = "429"
    /\ Len(retry.sleeps) = 8

-----------------------------------------------------------------------------
(* C21 *)

\* the positions of the mentions of message m whose user has an AFK entry when
\* the mentions are looked at (the sender's own entry is gone by then)
AfkMentions(m) == {i \in DOMAIN m.mentions : m.mentions[i] \in afk_users \ {m.author}}

First(S) == CHOOSE i \in S : \A j \in S : i <= j

\* how many AFK notices reached the channel
AfkNotices(o) == Len(SelectSeq(o.notices, LAMBDA x : x = "afk"))

Examined == msgs' = msgs + 1 /\ out'.stage \notin {"bot", "throttled"}

\* C21 as stated: a message with a mention of an AFK user gets one AFK notice,
\* for the first mentioned user that is AFK; a message without one gets none.
C21_AfkMentionNotice_Stated ==
    [][Examined =>
          IF AfkMentions(out'.msg) = {}
          THEN out'.afk_for = "none" /\ AfkNotices(out') = 0
          ELSE /\ out'.afk_for = out'.msg.mentions[First(AfkMentions(out'.msg))]
               /\ AfkNotices(out') <= 1]_vars

\* C21: an AFK notice is emitted exactly when the first mentioned user is AFK,
\* it is for that user, and at most one reaches the channel; a message whose
\* first mention is not AFK gets none, whoever else it mentions.
C21_AfkMentionNotice ==
    [][Examined =>
          IF 1 \in AfkMentions(out'.msg)
          THEN out'.afk_for = out'.msg.mentions[1] /\ AfkNotices(out') <= 1
          ELSE out'.afk_for = "none" /\ AfkNotices(out') = 0]_vars

\* a message that mentions two users, the first of them AFK, got its notice
C21_Witness ==
    /\ out.msg.mentions = <<"member", "mod">>
    /\ out.afk_for = "member"
    /\ AfkNotices(out) = 1

-----------------------------------------------------------------------------
(* C22 *)

\* the message of the step makes the bot send a welcome-back or an AFK notice
Notifies == out'.msg.author \in afk_users \/ out'.afk_for # "none"

\* C22: a message that sets off a welcome-back or an AFK notice is routed and
\* its handler runs as the routing block alone would have it, which does not
\* look at the AFK map, whether or not the notice could be sent.
C22_NoticesDoNotConsume ==
    [][Examined /\ Notifies =>
          LET r == route(out'.msg, now, PlatformOutcome("ok", "ok", "ok", "ok"))
          IN /\ out'.stage = "routed"
             /\ out'.handler = r.handler
             /\ out'.via = r.via
             /\ out'.cmd = r.cmd
             /\ out'.calls = r.calls
             /\ out'.sends = r.sends
             /\ out'.raised = r.raised
             /\ member_roles' = r.roles
             /\ commands_used' = r.used]_vars

\* an AFK user's custom command, mentioning an AFK user, ran although no
\* notice could be sent
C22_Witness ==
    /\ out.stage = "routed"
    /\ out.handler = "custom"
    /\ out.calls # <<>>
    /\ out.afk_for # "none"
    /\ out.notices = <<>>
    /\ out.msg.author \in {"member", "mod"}
    /\ out.msg.author \notin afk_users

-----------------------------------------------------------------------------
(* C23 *)

\* a call went past the rate limit and its write of data.json failed
WriteFailed == StoreCall /\ ret'.attempted /\ ~ret'.wrote

\* C23: when the write of data.json fails, the time of the last save and the
\* pending flag stay as they were and nothing is raised to the caller; with a
\* data_backup.json present the restore is tried, and when its copy goes
\* through data.json is the backup; without a backup nothing is restored.
C23_PersistFailure ==
    [][WriteFailed =>
          /\ last_save_time' = last_save_time
          /\ save_queue' = save_queue
          /\ ret'.raised = "none"
          /\ ret'.restored => /\ data_backup_json' # Absent
                              /\ data_json' = data_backup_json'
          /\ data_backup_json' = Absent => ~ret'.restored]_vars

\* a save whose write broke off half way and was undone from the backup
C23_Witness ==
    /\ ret.op = "save" /\ ret.attempted /\ ~ret.wrote /\ ret.restored
    /\ data_json = data_backup_json
    /\ data_json # Absent

\* a save whose write and whose restore both failed, a backup being there
C23_WitnessRestoreFailed ==
    /\ ret.op = "save" /\ ret.attempted /\ ~ret.wrote /\ ~ret.restored
    /\ data_backup_json # Absent
    /\ ret.raised = "none"

-----------------------------------------------------------------------------
(* C24 *)

\* the roles on_member_join called add_roles for
Attempted == Range(joined.result.calls)

\* C24 as stated: no add_roles for a role that is gone, none without the
\* Manage Roles permission, none for a role ranked at or above the bot's top
\* role.
C24_AutoroleSkips_Stated ==
    joined.result.handled =>
        /\ joined.result.granted \subseteq Attempted
        /\ \A x \in Attempted :
              /\ x \in guild_roles
              /\ joined.manage_roles
              /\ Rank(x) < Rank(top_role(joined.bot_roles))

\* C24: no add_roles for a role that is gone, none without the Manage Roles
\* permission, none for a role positioned above the bot's top role and none for
\* the bot's top role itself; another role at the position of the bot's top
\* role is not skipped.
C24_AutoroleSkips ==
    joined.result.handled =>
        /\ joined.result.granted \subseteq Attempted
        /\ \A x \in Attempted :
              /\ x \in guild_roles
              /\ joined.manage_roles
              /\ Rank(x) <= Rank(top_role(joined.bot_roles))
              /\ x # top_role(joined.bot_roles)
        /\ \A x \in Range(Configured) :
              (/\ x \in guild_roles
               /\ joined.manage_roles
               /\ Rank(x) = Rank(top_role(joined.bot_roles))
               /\ x # top_role(joined.bot_roles)) => x \in Attempted

\* a list with the bot's own top role and a role above it: both skipped, the
\* role below granted
C24_Witness ==
    /\ joined.result.handled
    /\ ~joined.member_bot
    /\ joined.data.autoroles = RoleData("list", <<"r2", "bad", "r3", "r1">>)
    /\ joined.bot_roles = {"r2"}
    /\ joined.manage_roles
    /\ joined.result.calls = <<"r1">>

\* a role at the position of the bot's top role was granted
C24_WitnessSamePosition ==
    /\ joined.result.handled
    /\ joined.bot_roles = {"r3"}
    /\ "r4" \in joined.result.granted

-----------------------------------------------------------------------------
(* C25 *)

\* the welcome configuration of the guild the member joined
Welcome == joined.data.welcome_systems

\* C25: a welcome message is sent on a join only for a human account, with
\* welcome enabled for the guild, the configured channel in the guild and the
\* named template among the guild's templates, the send being accepted; in
\* every other case nothing is sent, and no exception leaves the handler.
C25_WelcomeGating ==
    joined.result.handled =>
        /\ joined.welcome.sent =>
              /\ ~joined.member_bot
              /\ Welcome.present /\ Welcome.enabled
              /\ Welcome.channel \in guild_channels
              /\ Welcome.embed \in embed_templates
              /\ joined.wsend = "ok"
        /\ joined.welcome.tried =>
              /\ ~joined.member_bot
              /\ Welcome.present /\ Welcome.enabled
              /\ Welcome.channel \in guild_channels
              /\ Welcome.embed \in embed_templates
        /\ joined.welcome.raised = "none"

\* a human joined, everything was in place, the platform refused the send
C25_Witness ==
    /\ joined.result.handled
    /\ ~joined.member_bot
    /\ Welcome = WelcomeData(TRUE, "hi", "c1")
    /\ joined.wsend = "Forbidden"
    /\ joined.welcome.tried /\ ~joined.welcome.sent
    /\ joined.welcome.raised = "none"

\* a human joined and was welcomed
C25_WitnessSent ==
    /\ joined.result.handled /\ joined.welcome.sent

-----------------------------------------------------------------------------
(* C26 *)

\* the word right after the prefix in the last message, lower-cased
Token == lower(get_word(Drop(out.msg.content, Len(get_current_prefix(Guild)))))

\* the last message is a routed guild message that starts with the prefix and a
\* word that is no built-in command name or alias and has no alias entry
UnknownToken ==
    /\ Routed
    /\ startswith(out.msg.content, get_current_prefix(Guild))
    /\ Token # <<>>
    /\ Token \notin all_commands
    /\ FirstWord(out.msg.content) \notin DOMAIN AliasMap

C26_WitnessCustom ==
    /\ UnknownToken
    /\ Token = W_vip
    /\ out.handler = "custom"

-----------------------------------------------------------------------------
(* C27 *)

\* user u has more than ten command invocations recorded in the last minute
OverLimit(u) ==
    /\ u \in DOMAIN command_cooldowns
    /\ Len(SelectSeq(command_cooldowns[u], LAMBDA x : now - x < CmdWindow)) > CmdCeiling

\* C27: a command of a user who has more than 10 invocations recorded within
\* the last 60 seconds is not started: no handler runs for the message.
C27_CommandRateLimit ==
    [][(Delivery /\ OverLimit(out'.msg.author)) => out'.handler = "none"]_vars

-----------------------------------------------------------------------------
(* C28 *)

\* C28: the handlers of the delivered messages are started in the order the
\* messages were delivered, whatever the interleaving of their tasks.
C28_ProcessingOrder ==
    \A a, b \in DOMAIN inflight.started :
        a < b => inflight.started[a] < inflight.started[b]

-----------------------------------------------------------------------------
(* C29 *)

\* the tasks of user u's messages that have been through the AFK block
PastAfkBlock(u) ==
    {i \in DOMAIN inflight.tasks :
        inflight.tasks[i].msg.author = u /\ inflight.tasks[i].pc \in {"afk_send", "done"}}

\* the tasks of user u's messages that emitted the welcome-back notice
WelcomedBack(u) ==
    {k \in DOMAIN inflight.welcomed :
        inflight.tasks[inflight.welcomed[k]].msg.author = u}

\* C29: of the messages of a user who was AFK, however their tasks interleave,
\* the first to reach the AFK block removes the entry and emits the
\* welcome-back notice, no other does, and from then on the user is not in
\* the AFK map; until then the entry stays.
C29_AfkClearedOnce ==
    \A u \in inflight.afk0 :
        IF PastAfkBlock(u) = {}
        THEN u \in afk_users /\ WelcomedBack(u) = {}
        ELSE u \notin afk_users /\ Cardinality(WelcomedBack(u)) = 1

\* three messages of the AFK member in flight, one of them waiting on its AFK
\* notice while the others went through: one welcome-back
C29_Witness ==
    /\ Len(inflight.tasks) = 3
    /\ \A i \in DOMAIN inflight.tasks : inflight.tasks[i].msg.author = "member"
    /\ Cardinality(PastAfkBlock("member")) = 3
    /\ \E i \in DOMAIN inflight.tasks : inflight.tasks[i].pc = "afk_send"
    /\ inflight.started # <<>>
    /\ Len(inflight.welcomed) = 1
    /\ "member" \notin afk_users

-----------------------------------------------------------------------------
(* C30 *)

\* the positions counted as success and those recorded as failed
Counted == Range(mass.succeeded) \cup Range(mass.failed_users)

Increasing(q) == \A a, b \in DOMAIN q : a < b => q[a] < q[b]

\* C30: massrole goes through the listed users one at a time in list order;
\* every user gone through is counted once, as a success or as a failure; a
\* failure is followed by the next user; when the command completes the
\* successes and the failures add up to the number of listed users; and with a
\* role at or above the bot's top role no user is touched.
C30_MassroleAccounting ==
    /\ [](/\ mass.success_count = Len(mass.succeeded)
          /\ Counted = 1..mass.i
          /\ Range(mass.succeeded) \cap Range(mass.failed_users) = {}
          /\ Increasing(mass.succeeded) /\ Increasing(mass.failed_users)
          /\ Increasing(mass.adds)
          /\ mass.success_count + Len(mass.failed_users) = mass.i
          /\ mass.pc = "done" =>
                mass.success_count + Len(mass.failed_users) = Len(mass.users)
          /\ (mass.role_obj # "None"
              /\ Rank(mass.role_obj) >= Rank(top_role(mass.bot_roles))) =>
                /\ mass.adds = <<>> /\ mass.i = 0 /\ mass.held = mass.held0
                /\ mass.pc # "done")
    /\ [][(mass.pc = "loop" /\ mass.i < Len(mass.users)) =>
             /\ mass'.i = mass.i + 1
             /\ mass'.pc = "loop"
             /\ mass.i + 1 \in Range(mass'.succeeded) \cup Range(mass'.failed_users)]_vars

\* three users, the second of whom held the role and the first of whom could
\* not be given it: 2 successes and 1 failure at completion
C30_Witness ==
    /\ mass.pc = "done"
    /\ mass.users = <<"owner", "mod", "member">>
    /\ mass.held0 = {"mod"}
    /\ mass.failed_users = <<1>>
    /\ mass.succeeded = <<2, 3>>
    /\ mass.adds = <<1, 3>>

-----------------------------------------------------------------------------
(* C31, C32 *)

\* a call of save_data_queued made while a save is pending
QueuedCall == StoreCall /\ ret'.op = "queued" /\ save_queue

\* C31: when a save has been put off by the rate limit, a call of
\* save_data_queued writes the current document to data.json and clears the
\* pending flag.
C31_QueuedSave ==
    [][QueuedCall => /\ ~save_queue'
                     /\ data_json' = DocFile(data)
                     /\ data_json_mtime' = now]_vars

\* C32: force_save_data, called at the end of the construction after
\* load_data, goes on to the write whatever the 30 second window, and when
\* its write went through data.json holds the in-memory document.
C32_StartupForceSave ==
    ret.op = "construct" =>
        /\ ret.attempted
        /\ ret.wrote => data_json = DocFile(data)

-----------------------------------------------------------------------------
(* C33 *)

\* bot.start has just failed with LoginFailure
LoginFailed == retry'.starts = retry.starts + 1 /\ retry'.last = "LoginFailure"

\* C33: a LoginFailure of any start attempt is raised at once: the only sleep
\* of that pass is the backoff before the start, the function ends with
\* LoginFailure, and nothing is started or slept afterwards.
C33_LoginFailureNotRetried ==
    /\ [][LoginFailed =>
             /\ retry'.pc = "raised"
             /\ retry'.error = "LoginFailure"
             /\ retry'.attempt = retry.attempt
             /\ retry'.sleeps \in
                   {retry.sleeps,
                    Append(retry.sleeps,
                           [why |-> "backoff",
                            least |-> base_delay(retry.is_hosted) * Pow2(retry.attempt - 1)])}
             /\ retry.attempt = 0 => retry'.sleeps = retry.sleeps]_vars
    /\ [][retry.last = "LoginFailure" => retry' = retry]_vars

\* the second start fails with LoginFailure while attempts remain
C33_Witness ==
    /\ retry.last = "LoginFailure"
    /\ retry.starts = 2
    /\ retry.attempt = 1
    /\ retry.attempt < max_retries(retry.is_hosted) - 1
    /\ retry.pc = "raised"
    /\ Len(retry.sleeps) = 2

-----------------------------------------------------------------------------
(* C34 *)

\* the prefix stored for guild g in the loaded document, the default if none
StoredPrefix(g) ==
    IF StrKey(g) \in DOMAIN guild_prefixes THEN guild_prefixes[StrKey(g)]
    ELSE DEFAULT_PREFIX

\* C34: after load the router works with the prefix stored for the guild
\* under str(guild id), and with the default where none is stored: a guild
\* message that is the stored prefix followed by the name of a custom
\* command runs that command as a prefix command, a guild message that is the
\* stored prefix followed by a built-in command runs the built-in.
C34_EffectivePrefix ==
    (out.stage = "routed" /\ out.msg.guild = Guild
     /\ startswith(out.msg.content, StoredPrefix(Guild))) =>
          LET name == Drop(out.msg.content, Len(StoredPrefix(Guild)))
          IN /\ name \in {W_gif, W_mid} => out.handler = "custom" /\ out.via = "prefix"
             /\ name = W_help => out.handler = "builtin"

-----------------------------------------------------------------------------
(* C35 *)

\* what bot.deleted_messages holds for guild g
Buffer(g) ==
    IF snipe.deleted_messages.kind = "dict" /\ g \in DOMAIN snipe.deleted_messages.map
    THEN snipe.deleted_messages.map[g]
    ELSE <<>>

\* the ids of the deleted messages of guild g that no bot wrote, in the order
\* of their deletion
DeletedIn(g) ==
    LET evs == SelectSeq(snipe.log, LAMBDA e : ~e.author_bot /\ e.guild = g)
    IN [i \in 1..Len(evs) |-> evs[i].id]

\* C35: after any sequence of delete events the buffer of every guild holds
\* the last 10 (or fewer) deleted messages of the guild that no bot wrote, in
\* the order of deletion, and no delete event has raised.
C35_DeletedBuffer ==
    /\ snipe.raised = "none"
    /\ \A g \in SnipeGuilds :
          /\ Len(Buffer(g)) <= 10
          /\ Buffer(g) = LastN(DeletedIn(g), 10)

-----------------------------------------------------------------------------
(* C36, C37 *)

\* C36: a message starts at most one handler - the custom command executor
\* once or one built-in command once, never both and never one of them twice -
\* whatever the routing path, and a message that is not routed starts none.
C36_OneHandler ==
    /\ Len(out.starts) <= 1
    /\ out.starts = IF out.handler = "none" THEN <<>> ELSE <<out.handler>>
    /\ out.stage # "routed" => out.starts = <<>>

\* "!gif": gif is a custom command of the guild and a built-in; the executor
\* alone was started
C36_Witness ==
    /\ Routed
    /\ out.msg.content = <<"!">> \o W_gif
    /\ out.starts = <<"custom">>

\* a bare built-in of a no-prefix user: the built-in alone was started
C36_WitnessNoPrefix ==
    /\ Routed
    /\ out.via = "noprefix"
    /\ out.starts = <<"builtin">>

\* an alias of a built-in, typed with the prefix
C36_WitnessAlias ==
    /\ Routed
    /\ out.msg.content = <<"!", "q">>
    /\ Len(out.starts) <= 1

\* the built-in commands the last message dispatched
Dispatched(o) == Len(SelectSeq(o.starts, LAMBDA h : h = "builtin"))

\* C37: commands_used goes up by exactly 1 for each built-in command that is
\* dispatched, and by nothing otherwise.
C37_CommandsUsed ==
    [][msgs' = msgs + 1 => commands_used' = commands_used + Dispatched(out')]_vars

-----------------------------------------------------------------------------
(* C38 *)

\* a human joined a guild whose welcome is enabled and fully configured, and
\* the platform accepts the welcome message
WelcomeDue ==
    /\ joined.result.handled
    /\ ~joined.member_bot
    /\ Welcome.present /\ Welcome.enabled
    /\ Welcome.channel \in guild_channels
    /\ Welcome.embed \in embed_templates
    /\ joined.wsend = "ok"

\* C38: the welcome message of such a join is sent whatever the stored
\* autorole value is - none, well formed, not the text of a number, of a
\* wrong type - and however the grants ended.
C38_WelcomeIndependent == WelcomeDue => joined.welcome.sent

-----------------------------------------------------------------------------
(* C39, C40 *)

\* file content json.load accepts
Parseable(f) == f.kind \in {"doc", "nondict"}

\* C39: data_backup.json never holds content that does not parse - such
\* content is copied to the timestamped path only - and a restore after a
\* failed write never makes content that does not parse the primary.
C39_BackupParseable ==
    /\ [](data_backup_json # Absent => Parseable(data_backup_json))
    /\ [][(StoreCall /\ ret'.restored) => Parseable(data_json')]_vars

\* C40: when a save_data call whose write failed has returned, data.json
\* holds what it held before the call; when the write went through it holds
\* the document passed; it is never left truncated or put back to an older
\* document.
C40_DurableAcrossFailures ==
    [][(StoreCall /\ ret'.op = "save" /\ ret'.attempted) =>
          /\ ret'.wrote => data_json' = DocFile(data')
          /\ ~ret'.wrote => data_json' = data_json]_vars

====
